---- MODULE Spec2Model ----
(***************************************************************************)
(* A model of the venom_memory shared-memory IPC core:                     *)
(*   - the SeqLock data frame    (src/src/seqlock.rs),                     *)
(*   - the MPSC command queue    (src/src/mpsc_queue.rs),                  *)
(*   - the channel handshake     (src/src/channel.rs, src/src/shm.rs).     *)
(* Every atomic load, store, fetch_add and compare_exchange of the source  *)
(* is one step; a memcpy is one step per byte.  Steps of different         *)
(* processes interleave (sequentially consistent interleaving).            *)
(***************************************************************************)
EXTENDS Integers, Sequences, FiniteSets, TLC

(***************************************************************************)
(* Bounds of the model.                                                    *)
(***************************************************************************)
DataSize == 10        \* ChannelConfig.data_size used for the SeqLock region
MaxLen == 3           \* longest payload handed to write / write_with_len
MaxWrites == 2        \* number of write calls the daemon performs
MaxBuf == 3           \* longest reader buffer
NumReaders == 1       \* reading shells
MaxSlots == 2         \* largest ChannelConfig.cmd_slots
NumShells == 2        \* command-sending shells
MaxCmds == 4          \* commands the shells submit, all together
MaxConnects == 3      \* ShellChannel::connect calls, all shells together
MaxClaims == 5        \* cap on write_idx (slot claims, failed ones included)
SmallDataSize == 2    \* a data_size shorter than the longest payload
MaxRunCmds == 2       \* commands sent to a daemon inside run, all shells together
MaxResp == 1          \* longest response a handler returns, longest request buffer
MaxFfiCmds == 2       \* venom_shell_send_command calls, all shells together
MaxFfiCalls == 3      \* venom_daemon_try_recv_command calls
MaxBoundaryCalls == 2 \* try_send_command calls at the edges of the configuration
MaxBlockingCalls == 3 \* send_command calls, oversized ones among them
MaxFreshWrites == 1   \* publications on the fresh channel
MaxFreshCmds == 1     \* commands sent on the fresh channel
MaxLayoutSmall == 130 \* data_size from 0 up to this
MaxLayoutNear == 260  \* data_size from 2^64 - 1 down to 2^64 - 1 - this
MaxPayloadWrites == 1  \* write calls on a region of small size

(***************************************************************************)
(* Program constants.                                                      *)
(***************************************************************************)
PREFIX_LEN == 8       \* the 8-byte little-endian length prefix
MAX_CMD_SIZE == 4096
VENOM_MAGIC == 1447972685      \* 0x564E4F4D, "VNOM"
VENOM_VERSION == 2
MAX_SLOTS == 64
CACHE_LINE_SIZE == 64
\* std::mem::size_of of the #[repr(C)] structures on a 64-bit target
SizeOfChannelHeader == 72
SizeOfSeqLockHeader == 128
SizeOfMpscQueueHeader == 192
SizeOfCommandSlot == 4164
EMPTY == 0
WRITING == 1
READY == 2
PROCESSING == 3

VARIABLES
    \* ---- SeqLock (seqlock.rs) ----
    sequence,         \* SeqLockHeader.sequence
    data_size,        \* SeqLockHeader.data_size
    data,             \* the payload region, offsets 0 .. data_size-1
    writer,           \* the daemon's position inside write / write_with_len
    reader,           \* each shell's position inside read / read_with_len / try_read
    hist,             \* history: the payload region at each even value of sequence
    wlog,             \* history: the calls the writer has started, in order
    \* ---- MPSC queue (mpsc_queue.rs) ----
    num_slots,        \* MpscQueueHeader.num_slots
    buf_len,          \* length of the buffer the daemon hands to try_pop
    write_idx,        \* MpscQueueHeader.write_idx
    read_idx,         \* MpscQueueHeader.read_idx
    slots,            \* the CommandSlot array, indices 0 .. num_slots-1
    producer,         \* each shell's position inside try_push / push
    consumer,         \* the daemon's position inside try_pop
    popped,           \* history: what try_pop has returned, in order
    sent,             \* history: per shell, the commands its sends have published
    tries,            \* history: per shell, the outcome of each call that returned
    api,              \* history: per shell, which of the two send calls it has used
    \* ---- Channel (channel.rs, shm.rs) ----
    region,           \* the named shared-memory object and its ChannelHeader words
    daemon,           \* the daemon's position inside DaemonChannel::create
    conn,             \* each shell's position inside ShellChannel::connect, and its handle
    ids,              \* history: the client ids allocated, in allocation order
    \* ---- Callers (channel.rs run / request, bindings.rs) ----
    run,              \* the daemon's position inside DaemonChannel::run
    req,              \* each shell's position inside ShellChannel::request
    ffi,              \* history: what venom_daemon_try_recv_command has returned
    layout            \* the sizes and offsets DaemonChannel::create computes from its config

seqVars == <<sequence, data_size, data, writer, reader, hist, wlog>>
queueVars == <<num_slots, buf_len, write_idx, read_idx, slots, producer, consumer, popped, sent, tries, api>>
chanVars == <<region, daemon, conn, ids>>
appVars == <<run, req, ffi, layout>>
vars == <<seqVars, queueVars, chanVars, appVars>>

Min(a, b) == IF a < b THEN a ELSE b

Readers == 1 .. NumReaders
OobBytes == {0, 1}    \* what a load past the payload region may return

\* The payload of the k-th write call, n bytes long: every byte names the call
\* and its own offset, so payloads of different calls differ at every offset.
Payload(k, n) == [j \in 1 .. n |-> 16 * k + j]

Zeros(n) == [i \in 1 .. n |-> 0]

\* (len as u64).to_le_bytes()[i]
RECURSIVE LeByte(_, _)
LeByte(n, i) == IF i = 0 THEN n % 256 ELSE LeByte(n \div 256, i - 1)

\* u64::from_le_bytes(b) as usize, for b a sequence of PREFIX_LEN bytes.  Values
\* of 2^30 and above are all represented by Huge (the model checker's integers
\* are 32 bits wide); every buffer is far shorter than that.
Huge == 2 ^ 30
RECURSIVE FromLeFrom(_, _)
FromLeFrom(b, i) ==
    IF i > Len(b) THEN 0
    ELSE LET hi == FromLeFrom(b, i + 1)
         IN  IF hi >= Huge \div 256 THEN Huge ELSE b[i] + 256 * hi
FromLe(b) == FromLeFrom(b, 1)

(***************************************************************************)
(* SeqLockHeader::init and the zero-initialised region.                    *)
(***************************************************************************)
WriterIdle == [pc |-> "idle", op |-> "none", payload |-> <<>>, len |-> 0, i |-> 0]
ReaderIdle ==
    [pc |-> "idle", op |-> "none", buf |-> <<>>, seq1 |-> 0, lenb |-> <<>>,
     len |-> 0, i |-> 0, ret |-> -1, ok |-> FALSE, begin |-> -1]

\* SeqLockHeader::init(ptr, data_size) on a zero-filled region of n payload bytes
SeqLockInitSized(n) ==
    /\ sequence = 0
    /\ data_size = n
    /\ data = [j \in 0 .. n - 1 |-> 0]
    /\ writer = WriterIdle
    /\ reader = [r \in Readers |-> ReaderIdle]
    /\ hist = <<[j \in 0 .. n - 1 |-> 0]>>
    /\ wlog = <<>>

SeqLockInit == SeqLockInitSized(DataSize)

(***************************************************************************)
(* SeqLockWriter::write and write_with_len.                                *)
(***************************************************************************)
\* (variant) a writer that copies the whole payload whatever the region's size
WriteLen_NoClamp(op, p) == Len(p)

\* let len = data.len().min(max_size)            (write)
\* let len = data.len().min(max_size - 8)        (write_with_len)
\* On a region with data_size < 8 the subtraction underflows: a build without
\* overflow checks wraps it to 2^64 - 8 + data_size, longer than any slice, so the
\* minimum is data.len() (a build with them panics, see WriteWithLenPanic).
WriteLen(op, p) ==
    IF op = "write" THEN Min(Len(p), data_size)
    ELSE IF data_size < PREFIX_LEN THEN Len(p)
    ELSE Min(Len(p), data_size - PREFIX_LEN)

\* let len = data.len().min(max_size - 8) in a build with overflow checks, on a
\* region with data_size < 8: the call panics before it touches the region
WriteWithLenPanic(p) ==
    /\ writer.pc = "idle"
    /\ data_size < PREFIX_LEN
    /\ writer' = [WriterIdle EXCEPT !.pc = "abort", !.op = "write_with_len", !.payload = p]
    /\ UNCHANGED <<sequence, data_size, data, reader, hist, wlog, queueVars, chanVars, appVars>>

\* a store of byte b at offset j from the start of the payload region; data
\* records every offset that was stored to, those past the region included
MemWrite(j, b) ==
    IF j \in DOMAIN data THEN [data EXCEPT ![j] = b]
    ELSE [k \in DOMAIN data \cup {j} |-> IF k = j THEN b ELSE data[k]]

\* header.sequence.0.fetch_add(1, Release): the first increment (to odd)
WriteBegin(op, p) ==
    /\ writer.pc = "idle"
    /\ sequence' = sequence + 1
    /\ writer' = [pc |-> IF op = "write_with_len" THEN "prefix" ELSE "copy",
                  op |-> op, payload |-> p, len |-> WriteLen(op, p), i |-> 0]
    /\ wlog' = Append(wlog, [op |-> op, payload |-> p])
    /\ UNCHANGED <<data_size, data, reader, hist, queueVars, chanVars, appVars>>

\* copy_nonoverlapping(len_bytes.as_ptr(), self.data, 8), one byte
WritePrefixByte ==
    /\ writer.pc = "prefix"
    /\ data' = MemWrite(writer.i, LeByte(writer.len, writer.i))
    /\ writer' = IF writer.i + 1 = PREFIX_LEN
                 THEN [writer EXCEPT !.pc = "copy", !.i = 0]
                 ELSE [writer EXCEPT !.i = @ + 1]
    /\ UNCHANGED <<sequence, data_size, reader, hist, wlog, queueVars, chanVars, appVars>>

WriteBase(op) == IF op = "write_with_len" THEN PREFIX_LEN ELSE 0

\* (variant) a writer that holds its copy back while a reader is copying
WriteCopyByte_WaitReaders ==
    /\ writer.pc = "copy"
    /\ writer.i < writer.len
    /\ \A r \in Readers : reader[r].pc # "copy"
    /\ data' = MemWrite(WriteBase(writer.op) + writer.i, writer.payload[writer.i + 1])
    /\ writer' = [writer EXCEPT !.i = @ + 1]
    /\ UNCHANGED <<sequence, data_size, reader, hist, wlog, queueVars, chanVars, appVars>>

\* copy_nonoverlapping(data.as_ptr(), self.data [.add(8)], len), one byte
WriteCopyByte ==
    /\ writer.pc = "copy"
    /\ writer.i < writer.len
    /\ data' = MemWrite(WriteBase(writer.op) + writer.i, writer.payload[writer.i + 1])
    /\ writer' = [writer EXCEPT !.i = @ + 1]
    /\ UNCHANGED <<sequence, data_size, reader, hist, wlog, queueVars, chanVars, appVars>>

\* (variant) a write that returns without its second increment
WriteEnd_NoIncrement ==
    /\ writer.pc = "copy"
    /\ writer.i = writer.len
    /\ hist' = Append(hist, data)
    /\ writer' = WriterIdle
    /\ UNCHANGED <<sequence, data_size, data, reader, wlog, queueVars, chanVars, appVars>>

\* (variant) a write that ends by storing 0 into sequence
WriteEnd_Reset ==
    /\ writer.pc = "copy"
    /\ writer.i = writer.len
    /\ sequence' = 0
    /\ hist' = Append(hist, data)
    /\ writer' = WriterIdle
    /\ UNCHANGED <<data_size, data, reader, wlog, queueVars, chanVars, appVars>>

\* fence(Release); header.sequence.0.fetch_add(1, Release): the second increment
WriteEnd ==
    /\ writer.pc = "copy"
    /\ writer.i = writer.len
    /\ sequence' = sequence + 1
    /\ hist' = Append(hist, data)
    /\ writer' = WriterIdle
    /\ UNCHANGED <<data_size, data, reader, wlog, queueVars, chanVars, appVars>>

(***************************************************************************)
(* SeqLockReader::read, read_with_len and try_read.                        *)
(***************************************************************************)
ReadOps == {"read", "read_with_len", "try_read"}

\* a load of one byte of shared memory at payload offset j
MemRead(j) == IF j < data_size THEN {data[j]} ELSE OobBytes

\* the call: the caller's buffer holds n zero bytes
ReadBegin(r, op, n) ==
    /\ reader[r].pc = "idle"
    /\ reader' = [reader EXCEPT ![r] =
                    [ReaderIdle EXCEPT !.pc = "load1", !.op = op, !.buf = Zeros(n),
                                       !.begin = IF writer.pc = "idle" THEN Len(wlog) ELSE -1]]
    /\ UNCHANGED <<sequence, data_size, data, writer, hist, wlog, queueVars, chanVars, appVars>>

\* let max_size = header.data_size.min(buf.len());   let copy_len = len.min(buf.len());
CopyLen(rd) ==
    IF rd.op = "read_with_len" THEN Min(rd.len, Len(rd.buf))
    ELSE Min(data_size, Len(rd.buf))

ReadBase(op) == IF op = "read_with_len" THEN PREFIX_LEN ELSE 0

\* (variant) a try_read that spins on an odd sequence as read does
ReadLoad1_Spin(r) ==
    /\ reader[r].pc = "load1"
    /\ LET rd == reader[r]
       IN  reader' = [reader EXCEPT ![r] =
             IF sequence % 2 = 1
             THEN [rd EXCEPT !.seq1 = sequence]
             ELSE [rd EXCEPT !.pc = IF rd.op = "read_with_len" THEN "prefix" ELSE "copy",
                             !.seq1 = sequence, !.i = 0, !.lenb = <<>>, !.len = 0]]
    /\ UNCHANGED <<sequence, data_size, data, writer, hist, wlog, queueVars, chanVars, appVars>>

\* (variant) a reader that does not look at the parity of its first load
ReadLoad1_NoParity(r) ==
    /\ reader[r].pc = "load1"
    /\ LET rd == reader[r]
       IN  reader' = [reader EXCEPT ![r] =
             [rd EXCEPT !.pc = IF rd.op = "read_with_len" THEN "prefix" ELSE "copy",
                        !.seq1 = sequence, !.i = 0, !.lenb = <<>>, !.len = 0]]
    /\ UNCHANGED <<sequence, data_size, data, writer, hist, wlog, queueVars, chanVars, appVars>>

\* let seq1 = header.sequence.0.load(Acquire); if seq1 & 1 == 1 { continue / return None }
ReadLoad1(r) ==
    /\ reader[r].pc = "load1"
    /\ LET rd == reader[r]
       IN  reader' = [reader EXCEPT ![r] =
             IF sequence % 2 = 1
             THEN IF rd.op = "try_read"
                  THEN [rd EXCEPT !.pc = "done", !.seq1 = sequence, !.ok = FALSE]
                  ELSE [rd EXCEPT !.seq1 = sequence]
             ELSE [rd EXCEPT !.pc = IF rd.op = "read_with_len" THEN "prefix" ELSE "copy",
                             !.seq1 = sequence, !.i = 0, !.lenb = <<>>, !.len = 0]]
    /\ UNCHANGED <<sequence, data_size, data, writer, hist, wlog, queueVars, chanVars, appVars>>

\* copy_nonoverlapping(self.data, len_bytes.as_mut_ptr(), 8), one byte;
\* after the last one, u64::from_le_bytes(len_bytes) as usize
ReadPrefixByte(r) ==
    /\ reader[r].pc = "prefix"
    /\ \E b \in MemRead(reader[r].i) :
         LET rd == reader[r]
             lb == Append(rd.lenb, b)
         IN  reader' = [reader EXCEPT ![r] =
               IF Len(lb) = PREFIX_LEN
               THEN [rd EXCEPT !.pc = "copy", !.lenb = lb, !.len = FromLe(lb), !.i = 0]
               ELSE [rd EXCEPT !.lenb = lb, !.i = rd.i + 1]]
    /\ UNCHANGED <<sequence, data_size, data, writer, hist, wlog, queueVars, chanVars, appVars>>

\* copy_nonoverlapping(self.data [.add(8)], buf.as_mut_ptr(), max_size / copy_len), one byte
ReadCopyByte(r) ==
    /\ reader[r].pc = "copy"
    /\ reader[r].i < CopyLen(reader[r])
    /\ \E b \in MemRead(ReadBase(reader[r].op) + reader[r].i) :
         LET rd == reader[r]
         IN  reader' = [reader EXCEPT ![r] =
                          [rd EXCEPT !.buf = [rd.buf EXCEPT ![rd.i + 1] = b], !.i = rd.i + 1]]
    /\ UNCHANGED <<sequence, data_size, data, writer, hist, wlog, queueVars, chanVars, appVars>>

\* (variant) read_with_len returning the number of bytes it copied
ReadResult_Copied(rd) == Min(IF rd.op = "read_with_len" THEN rd.len ELSE data_size, Len(rd.buf))

\* the value a successful call returns: max_size (read, try_read) or len (read_with_len)
ReadResult(rd) == IF rd.op = "read_with_len" THEN rd.len ELSE Min(data_size, Len(rd.buf))

\* (variant) a reader that returns without comparing the two loads of sequence
ReadLoad2_NoCompare(r) ==
    /\ reader[r].pc = "copy"
    /\ reader[r].i = CopyLen(reader[r])
    /\ reader' = [reader EXCEPT ![r] =
                    [reader[r] EXCEPT !.pc = "done", !.ok = TRUE, !.ret = ReadResult(reader[r])]]
    /\ UNCHANGED <<sequence, data_size, data, writer, hist, wlog, queueVars, chanVars, appVars>>

\* (variant) a reader that retries its copy without loading sequence again
ReadLoad2_NoReload(r) ==
    /\ reader[r].pc = "copy"
    /\ reader[r].i = CopyLen(reader[r])
    /\ LET rd == reader[r]
       IN  reader' = [reader EXCEPT ![r] =
             IF rd.seq1 = sequence
             THEN [rd EXCEPT !.pc = "done", !.ok = TRUE, !.ret = ReadResult(rd)]
             ELSE IF rd.op = "try_read"
                  THEN [rd EXCEPT !.pc = "done", !.ok = FALSE]
                  ELSE [rd EXCEPT !.pc = IF rd.op = "read_with_len" THEN "prefix" ELSE "copy",
                                  !.i = 0, !.lenb = <<>>, !.len = 0]]
    /\ UNCHANGED <<sequence, data_size, data, writer, hist, wlog, queueVars, chanVars, appVars>>

\* fence(Acquire); let seq2 = header.sequence.0.load(Acquire); if seq1 == seq2 { return }
ReadLoad2(r) ==
    /\ reader[r].pc = "copy"
    /\ reader[r].i = CopyLen(reader[r])
    /\ LET rd == reader[r]
       IN  reader' = [reader EXCEPT ![r] =
             IF rd.seq1 = sequence
             THEN [rd EXCEPT !.pc = "done", !.ok = TRUE, !.ret = ReadResult(rd)]
             ELSE IF rd.op = "try_read"
                  THEN [rd EXCEPT !.pc = "done", !.ok = FALSE]
                  ELSE [rd EXCEPT !.pc = "load1"]]
    /\ UNCHANGED <<sequence, data_size, data, writer, hist, wlog, queueVars, chanVars, appVars>>

\* the caller takes the result; the shell may call again
ReadReturn(r) ==
    /\ reader[r].pc = "done"
    /\ reader' = [reader EXCEPT ![r] = ReaderIdle]
    /\ UNCHANGED <<sequence, data_size, data, writer, hist, wlog, queueVars, chanVars, appVars>>

(***************************************************************************)
(* MpscQueueHeader::init.                                                  *)
(***************************************************************************)
Shells == 1 .. NumShells

\* the command shell p submits in its k-th call: its id, then a counter
Cmd(p, k) == <<p, k>>

\* a slot that init leaves READY
SlotInit_Ready == [state |-> READY, client_id |-> 0, cmd_len |-> 0, cmd_data |-> <<>>]

SlotInit == [state |-> EMPTY, client_id |-> 0, cmd_len |-> 0, cmd_data |-> <<>>]
ProducerIdle ==
    [pc |-> "idle", mode |-> "none", cmd |-> <<>>, idx |-> 0, full0 |-> FALSE, pops0 |-> 0]
ConsumerIdle == [pc |-> "idle", ridx |-> 0, client_id |-> 0, cmd_len |-> 0, buf |-> <<>>]

\* the buffer the daemon hands to try_pop in run: [0u8; MAX_CMD_SIZE]
CmdBufLen == MAX_CMD_SIZE

\* the queue after MpscQueueHeader::init(n), with a consumer whose buffer holds b bytes
MpscInitBuf(n, b) ==
    /\ num_slots = n
    /\ buf_len = b
    /\ write_idx = 0
    /\ read_idx = 0
    /\ slots = [j \in 0 .. n - 1 |-> SlotInit]
    /\ producer = [p \in Shells |-> ProducerIdle]
    /\ consumer = ConsumerIdle
    /\ popped = <<>>
    /\ sent = [p \in Shells |-> <<>>]
    /\ tries = [p \in Shells |-> <<>>]
    /\ api = [p \in Shells |-> "none"]

MpscInit(n) == MpscInitBuf(n, CmdBufLen)

(***************************************************************************)
(* MpscProducer::try_push and push (ShellChannel::try_send_command,        *)
(* send_command).  The shell's client id is its index.                     *)
(***************************************************************************)
AllNonEmpty == \A j \in 0 .. num_slots - 1 : slots[j].state # EMPTY

\* number of calls shell p has started, and all shells together
Calls(p) == Len(tries[p]) + (IF producer[p].pc = "idle" THEN 0 ELSE 1)
RECURSIVE CallsUpTo(_)
CallsUpTo(p) == IF p = 0 THEN 0 ELSE Calls(p) + CallsUpTo(p - 1)
TotalCalls == CallsUpTo(NumShells)

\* let slot_idx = (idx as usize) % num_slots;
SlotOf(idx) == idx % num_slots

\* what the call's return leaves in the history: its result, whether every slot
\* was non-EMPTY when it claimed or when it compared, and the pops completed
\* when it (last) claimed and when it returned
Outcome(pr, ok, full1) ==
    [ok |-> ok, full |-> pr.full0 \/ full1, pops0 |-> pr.pops0, pops |-> Len(popped)]

\* (variant) a push that gives up when try_push refuses the command's length
TryPushClaim_GiveUp(p, pr) ==
    IF Len(pr.cmd) > MAX_CMD_SIZE
    THEN /\ producer' = [producer EXCEPT ![p] = ProducerIdle]
         /\ tries' = [tries EXCEPT ![p] = Append(@, Outcome(pr, FALSE, FALSE))]
         /\ UNCHANGED write_idx
    ELSE /\ write_idx < MaxClaims
         /\ write_idx' = write_idx + 1
         /\ producer' = [producer EXCEPT ![p] =
                           [pr EXCEPT !.pc = IF num_slots = 0 THEN "abort" ELSE "cas",
                                      !.idx = write_idx, !.full0 = AllNonEmpty,
                                      !.pops0 = Len(popped)]]
         /\ UNCHANGED tries

\* a try_push that claims its slot before it looks at the command's length
TryPushClaim_ClaimFirst(p, pr) ==
    /\ write_idx < MaxClaims
    /\ write_idx' = write_idx + 1
    /\ IF Len(pr.cmd) > MAX_CMD_SIZE
       THEN /\ producer' = [producer EXCEPT ![p] = ProducerIdle]
            /\ tries' = [tries EXCEPT ![p] = Append(@, Outcome(pr, FALSE, FALSE))]
       ELSE /\ producer' = [producer EXCEPT ![p] =
                              [pr EXCEPT !.pc = IF num_slots = 0 THEN "abort" ELSE "cas",
                                         !.idx = write_idx, !.full0 = AllNonEmpty,
                                         !.pops0 = Len(popped)]]
            /\ UNCHANGED tries

\* if cmd.len() > MAX_CMD_SIZE { return false }
\* let idx = header.write_idx.0.fetch_add(1, AcqRel);
\* let slot_idx = (idx as usize) % num_slots;   -- panics when num_slots is 0
TryPushClaim(p, pr) ==
    IF Len(pr.cmd) > MAX_CMD_SIZE
    THEN /\ IF pr.mode = "push"
            THEN /\ producer' = [producer EXCEPT ![p] = [pr EXCEPT !.pc = "claim"]]
                 /\ UNCHANGED tries
            ELSE /\ producer' = [producer EXCEPT ![p] = ProducerIdle]
                 /\ tries' = [tries EXCEPT ![p] = Append(@, Outcome(pr, FALSE, FALSE))]
         /\ UNCHANGED write_idx
    ELSE /\ write_idx < MaxClaims
         /\ write_idx' = write_idx + 1
         /\ producer' = [producer EXCEPT ![p] =
                           [pr EXCEPT !.pc = IF num_slots = 0 THEN "abort" ELSE "cas",
                                      !.idx = write_idx, !.full0 = AllNonEmpty,
                                      !.pops0 = Len(popped)]]
         /\ UNCHANGED tries

\* ShellChannel::try_send_command (mode "try") or send_command (mode "push") is
\* called with the shell's next command and makes its first claim
SendCommand(p, mode, cmd) ==
    /\ producer[p].pc = "idle"
    /\ TryPushClaim(p, [ProducerIdle EXCEPT !.mode = mode, !.cmd = cmd])
    /\ api' = [api EXCEPT ![p] = IF @ \in {"none", mode} THEN mode ELSE "both"]
    /\ UNCHANGED <<num_slots, buf_len, read_idx, slots, consumer, popped, sent>>
    /\ UNCHANGED <<seqVars, chanVars, appVars>>

\* the same call with the shell's next numbered command
Send(p, mode) == SendCommand(p, mode, Cmd(p, Len(tries[p]) + 1))

\* push: while !self.try_push(cmd) { spin_loop() }   -- the next try_push of the loop
PushRetry(p) ==
    /\ producer[p].pc = "claim"
    /\ TryPushClaim(p, producer[p])
    /\ UNCHANGED <<num_slots, buf_len, read_idx, slots, consumer, popped, sent, api>>
    /\ UNCHANGED <<seqVars, chanVars, appVars>>

\* a producer that stores WRITING without comparing
TryPushCas_Blind(p) ==
    /\ producer[p].pc = "cas"
    /\ slots' = [slots EXCEPT ![SlotOf(producer[p].idx)].state = WRITING]
    /\ producer' = [producer EXCEPT ![p].pc = "store"]
    /\ UNCHANGED <<num_slots, buf_len, write_idx, read_idx, consumer, popped, sent, tries, api>>
    /\ UNCHANGED <<seqVars, chanVars, appVars>>

\* a producer that gives its claim back when the compare-exchange fails
TryPushCas_Rollback(p) ==
    /\ producer[p].pc = "cas"
    /\ LET pr == producer[p]
           j == SlotOf(pr.idx)
       IN  IF slots[j].state = EMPTY
           THEN /\ slots' = [slots EXCEPT ![j].state = WRITING]
                /\ producer' = [producer EXCEPT ![p] = [pr EXCEPT !.pc = "store"]]
                /\ UNCHANGED <<tries, write_idx>>
           ELSE /\ write_idx' = write_idx - 1
                /\ IF pr.mode = "push"
                   THEN /\ producer' = [producer EXCEPT ![p] = [pr EXCEPT !.pc = "claim"]]
                        /\ UNCHANGED <<slots, tries>>
                   ELSE /\ producer' = [producer EXCEPT ![p] = ProducerIdle]
                        /\ tries' = [tries EXCEPT ![p] =
                                        Append(@, Outcome(pr, FALSE, AllNonEmpty))]
                        /\ UNCHANGED slots
    /\ UNCHANGED <<num_slots, buf_len, read_idx, consumer, popped, sent, api>>
    /\ UNCHANGED <<seqVars, chanVars, appVars>>

\* slot.state.compare_exchange(EMPTY, WRITING, AcqRel, Relaxed);  Err(_) => false
TryPushCas(p) ==
    /\ producer[p].pc = "cas"
    /\ LET pr == producer[p]
           j == SlotOf(pr.idx)
       IN  IF slots[j].state = EMPTY
           THEN /\ slots' = [slots EXCEPT ![j].state = WRITING]
                /\ producer' = [producer EXCEPT ![p] = [pr EXCEPT !.pc = "store"]]
                /\ UNCHANGED tries
           ELSE IF pr.mode = "push"
                THEN /\ producer' = [producer EXCEPT ![p] = [pr EXCEPT !.pc = "claim"]]
                     /\ UNCHANGED <<slots, tries>>
                ELSE /\ producer' = [producer EXCEPT ![p] = ProducerIdle]
                     /\ tries' = [tries EXCEPT ![p] = Append(@, Outcome(pr, FALSE, AllNonEmpty))]
                     /\ UNCHANGED slots
    /\ UNCHANGED <<num_slots, buf_len, write_idx, read_idx, consumer, popped, sent, api>>
    /\ UNCHANGED <<seqVars, chanVars, appVars>>

\* slot.client_id.store(self.client_id, Relaxed);
\* slot.cmd_len.store(cmd.len() as u32, Relaxed);
\* copy_nonoverlapping(cmd.as_ptr(), (*slot_ptr).cmd_data.as_mut_ptr(), cmd.len())
\* (three stores into the slot this producer holds in WRITING, taken as one step)
TryPushStore(p) ==
    /\ producer[p].pc = "store"
    /\ slots' = [slots EXCEPT ![SlotOf(producer[p].idx)] =
                   [@ EXCEPT !.client_id = p, !.cmd_len = Len(producer[p].cmd),
                             !.cmd_data = producer[p].cmd]]
    /\ producer' = [producer EXCEPT ![p].pc = "publish"]
    /\ UNCHANGED <<num_slots, buf_len, write_idx, read_idx, consumer, popped, sent, tries, api>>
    /\ UNCHANGED <<seqVars, chanVars, appVars>>

\* slot.state.store(READY, Release); true
TryPushPublish(p) ==
    /\ producer[p].pc = "publish"
    /\ slots' = [slots EXCEPT ![SlotOf(producer[p].idx)].state = READY]
    /\ producer' = [producer EXCEPT ![p] = ProducerIdle]
    /\ sent' = [sent EXCEPT ![p] = Append(@, producer[p].cmd)]
    /\ tries' = [tries EXCEPT ![p] = Append(@, Outcome(producer[p], TRUE, FALSE))]
    /\ UNCHANGED <<num_slots, buf_len, write_idx, read_idx, consumer, popped, api>>
    /\ UNCHANGED <<seqVars, chanVars, appVars>>

(***************************************************************************)
(* MpscConsumer::try_pop (DaemonChannel::try_recv_command); pop and        *)
(* recv_command call it until it returns a command.                        *)
(***************************************************************************)
\* let read_idx = header.read_idx.0.load(Acquire);   (only this consumer writes read_idx)
\* let slot_idx = (read_idx as usize) % num_slots;   -- panics when num_slots is 0
\* if slot.state.load(Acquire) != READY { return None }
TryPopCheck ==
    /\ consumer.pc = "idle"
    /\ consumer' = IF num_slots = 0
                   THEN [ConsumerIdle EXCEPT !.pc = "abort"]
                   ELSE IF slots[SlotOf(read_idx)].state # READY
                   THEN ConsumerIdle
                   ELSE [ConsumerIdle EXCEPT !.pc = "mark", !.ridx = read_idx]
    /\ UNCHANGED <<num_slots, buf_len, write_idx, read_idx, slots, producer, popped, sent, tries, api>>
    /\ UNCHANGED <<seqVars, chanVars, appVars>>

\* (variant) a consumer that copies without marking the slot PROCESSING
TryPopMark_NoStore ==
    /\ consumer.pc = "mark"
    /\ consumer' = [consumer EXCEPT !.pc = "copy"]
    /\ UNCHANGED <<num_slots, buf_len, write_idx, read_idx, slots, producer, popped, sent, tries, api>>
    /\ UNCHANGED <<seqVars, chanVars, appVars>>

\* slot.state.store(PROCESSING, Release)
TryPopMark ==
    /\ consumer.pc = "mark"
    /\ slots' = [slots EXCEPT ![SlotOf(consumer.ridx)].state = PROCESSING]
    /\ consumer' = [consumer EXCEPT !.pc = "copy"]
    /\ UNCHANGED <<num_slots, buf_len, write_idx, read_idx, producer, popped, sent, tries, api>>
    /\ UNCHANGED <<seqVars, chanVars, appVars>>

\* a consumer that returns the number of bytes it copied
TryPopCopy_Clamped ==
    /\ consumer.pc = "copy"
    /\ LET sl == slots[SlotOf(consumer.ridx)]
       IN  consumer' = [consumer EXCEPT !.pc = "release", !.client_id = sl.client_id,
                                        !.cmd_len = Min(sl.cmd_len, buf_len),
                                        !.buf = SubSeq(sl.cmd_data, 1, Min(sl.cmd_len, buf_len))]
    /\ UNCHANGED <<num_slots, buf_len, write_idx, read_idx, slots, producer, popped, sent, tries, api>>
    /\ UNCHANGED <<seqVars, chanVars, appVars>>

\* let client_id = slot.client_id.load(Relaxed); let cmd_len = slot.cmd_len.load(Relaxed);
\* copy_nonoverlapping(slot.cmd_data.as_ptr(), buf.as_mut_ptr(), cmd_len.min(buf.len()))
TryPopCopy ==
    /\ consumer.pc = "copy"
    /\ LET sl == slots[SlotOf(consumer.ridx)]
       IN  consumer' = [consumer EXCEPT !.pc = "release", !.client_id = sl.client_id,
                                        !.cmd_len = sl.cmd_len,
                                        !.buf = SubSeq(sl.cmd_data, 1, Min(sl.cmd_len, buf_len))]
    /\ UNCHANGED <<num_slots, buf_len, write_idx, read_idx, slots, producer, popped, sent, tries, api>>
    /\ UNCHANGED <<seqVars, chanVars, appVars>>

\* (variant) a consumer that does not hand the slot back
TryPopRelease_Hold ==
    /\ consumer.pc = "release"
    /\ consumer' = [consumer EXCEPT !.pc = "advance"]
    /\ UNCHANGED <<num_slots, buf_len, write_idx, read_idx, slots, producer, popped, sent, tries, api>>
    /\ UNCHANGED <<seqVars, chanVars, appVars>>

\* a consumer that hands the slot back as READY
TryPopRelease_Ready ==
    /\ consumer.pc = "release"
    /\ slots' = [slots EXCEPT ![SlotOf(consumer.ridx)].state = READY]
    /\ consumer' = [consumer EXCEPT !.pc = "advance"]
    /\ UNCHANGED <<num_slots, buf_len, write_idx, read_idx, producer, popped, sent, tries, api>>
    /\ UNCHANGED <<seqVars, chanVars, appVars>>

\* slot.state.store(EMPTY, Release)
TryPopRelease ==
    /\ consumer.pc = "release"
    /\ slots' = [slots EXCEPT ![SlotOf(consumer.ridx)].state = EMPTY]
    /\ consumer' = [consumer EXCEPT !.pc = "advance"]
    /\ UNCHANGED <<num_slots, buf_len, write_idx, read_idx, producer, popped, sent, tries, api>>
    /\ UNCHANGED <<seqVars, chanVars, appVars>>

\* a consumer that advances read_idx by two
TryPopAdvance_Twice ==
    /\ consumer.pc = "advance"
    /\ read_idx' = read_idx + 2
    /\ popped' = Append(popped, [client_id |-> consumer.client_id,
                                 cmd_len |-> consumer.cmd_len, cmd |-> consumer.buf])
    /\ consumer' = ConsumerIdle
    /\ UNCHANGED <<num_slots, buf_len, write_idx, slots, producer, sent, tries, api>>
    /\ UNCHANGED <<seqVars, chanVars, appVars>>

\* header.read_idx.0.fetch_add(1, Release); Some((client_id, cmd_len))
TryPopAdvance ==
    /\ consumer.pc = "advance"
    /\ read_idx' = read_idx + 1
    /\ popped' = Append(popped, [client_id |-> consumer.client_id,
                                 cmd_len |-> consumer.cmd_len, cmd |-> consumer.buf])
    /\ consumer' = ConsumerIdle
    /\ UNCHANGED <<num_slots, buf_len, write_idx, slots, producer, sent, tries, api>>
    /\ UNCHANGED <<seqVars, chanVars, appVars>>

(***************************************************************************)
(* The named region.  VenomShm::create zero-fills it; DaemonChannel::create *)
(* then stamps the ChannelHeader.                                          *)
(***************************************************************************)
\* kind: "absent" (no object of this name), "daemon" (made by DaemonChannel::create),
\* "foreign" (made by other means), "unlinked" (the name is gone, the object lives on
\* in the mappings that remain); fits: the object is as large as its header declares
RegionAbsent ==
    [kind |-> "absent", magic |-> 0, version |-> 0, next_client_id |-> 0, fits |-> TRUE]
ConnIdle ==
    [pc |-> "idle", client_id |-> 0, err |-> "none", expected |-> 0, got |-> 0,
     created |-> FALSE]

ChannelInit ==
    /\ region = RegionAbsent
    /\ daemon = "start"
    /\ conn = [s \in Shells |-> ConnIdle]
    /\ ids = <<>>

\* VenomShm::create(namespace, total_size): shm_open(CREATE | EXCL), ftruncate,
\* mmap, write_bytes(addr, 0, size)
DaemonShmCreate ==
    /\ daemon = "start"
    /\ region.kind = "absent"
    /\ region' = [kind |-> "daemon", magic |-> 0, version |-> 0, next_client_id |-> 0,
                  fits |-> TRUE]
    /\ daemon' = "mapped"
    /\ UNCHANGED <<conn, ids>>
    /\ UNCHANGED <<seqVars, queueVars, appVars>>

\* (*header).magic = VENOM_MAGIC; (*header).version = VENOM_VERSION;
DaemonStampMagic ==
    /\ daemon = "mapped"
    /\ region' = [region EXCEPT !.magic = VENOM_MAGIC, !.version = VENOM_VERSION]
    /\ daemon' = "stamped"
    /\ UNCHANGED <<conn, ids>>
    /\ UNCHANGED <<seqVars, queueVars, appVars>>

\* (*header).next_client_id = AtomicU32::new(1); ... Ok(Self { .. })
DaemonStampRest ==
    /\ daemon = "stamped"
    /\ region' = [region EXCEPT !.next_client_id = 1]
    /\ daemon' = "created"
    /\ UNCHANGED <<conn, ids>>
    /\ UNCHANGED <<seqVars, queueVars, appVars>>

\* A region of this name made by other means: with the operating system's
\* primitives alone, or by an implementation of another layout version.
ForeignRegion(m, v, n) ==
    /\ daemon = "start"
    /\ region.kind = "absent"
    /\ region' = [kind |-> "foreign", magic |-> m, version |-> v, next_client_id |-> n,
                  fits |-> TRUE]
    /\ UNCHANGED <<daemon, conn, ids>>
    /\ UNCHANGED <<seqVars, queueVars, appVars>>

\* Such a region cut short (ftruncate) before any shell attaches: its header
\* stays readable, the sub-regions the header declares no longer fit.
RegionTruncate ==
    /\ region.kind = "foreign"
    /\ region.fits
    /\ \A s \in Shells : conn[s].pc = "idle"
    /\ ids = <<>>
    /\ region' = [region EXCEPT !.fits = FALSE]
    /\ UNCHANGED <<daemon, conn, ids>>
    /\ UNCHANGED <<seqVars, queueVars, appVars>>

\* Drop for the daemon's VenomShm (is_owner): munmap, then shm_unlink
DaemonDrop ==
    /\ daemon = "created"
    /\ daemon' = "dropped"
    /\ region' = [region EXCEPT !.kind = "unlinked"]
    /\ UNCHANGED <<conn, ids>>
    /\ UNCHANGED <<seqVars, queueVars, appVars>>

(***************************************************************************)
(* ShellChannel::connect.                                                  *)
(***************************************************************************)
\* let shm = VenomShm::open(namespace)?;      (ShmOpen when the name does not exist)
ConnectOpen(s) ==
    /\ conn[s].pc = "idle"
    /\ conn' = [conn EXCEPT ![s] =
                  IF region.kind \in {"absent", "unlinked"}
                  THEN [ConnIdle EXCEPT !.pc = "failed", !.err = "ShmOpen"]
                  ELSE [ConnIdle EXCEPT !.pc = "opened",
                                        !.created = (region.kind = "daemon" /\ daemon = "created")]]
    /\ UNCHANGED <<region, daemon, ids>>
    /\ UNCHANGED <<seqVars, queueVars, appVars>>

\* (variant) a connect that takes its client id before it validates the magic
ConnectCheckMagic_AllocateFirst(s) ==
    /\ conn[s].pc = "opened"
    /\ conn' = [conn EXCEPT ![s] =
                  IF region.magic # VENOM_MAGIC
                  THEN [@ EXCEPT !.pc = "failed", !.err = "InvalidMagic",
                                 !.expected = VENOM_MAGIC, !.got = region.magic]
                  ELSE [@ EXCEPT !.pc = "checked"]]
    /\ region' = [region EXCEPT !.next_client_id = @ + 1]
    /\ UNCHANGED <<daemon, ids>>
    /\ UNCHANGED <<seqVars, queueVars, appVars>>

\* let magic = (*header).magic;
\* if magic != VENOM_MAGIC { return Err(InvalidMagic { expected: VENOM_MAGIC, got: magic }) }
ConnectCheckMagic(s) ==
    /\ conn[s].pc = "opened"
    /\ conn' = [conn EXCEPT ![s] =
                  IF region.magic # VENOM_MAGIC
                  THEN [@ EXCEPT !.pc = "failed", !.err = "InvalidMagic",
                                 !.expected = VENOM_MAGIC, !.got = region.magic]
                  ELSE [@ EXCEPT !.pc = "checked"]]
    /\ UNCHANGED <<region, daemon, ids>>
    /\ UNCHANGED <<seqVars, queueVars, appVars>>

\* (variant) a connect that takes the value after the increment as its id
ConnectAllocate_AddFetch(s) ==
    /\ conn[s].pc = "checked"
    /\ region' = [region EXCEPT !.next_client_id = @ + 1]
    /\ conn' = [conn EXCEPT ![s] = [@ EXCEPT !.pc = "connected",
                                             !.client_id = region.next_client_id + 1]]
    /\ ids' = Append(ids, [shell |-> s, id |-> region.next_client_id + 1,
                           created |-> conn[s].created])
    /\ UNCHANGED daemon
    /\ UNCHANGED <<seqVars, queueVars, appVars>>

\* let client_id = (*header).next_client_id.fetch_add(1, AcqRel); ... Ok(Self { .. })
ConnectAllocate(s) ==
    /\ conn[s].pc = "checked"
    /\ region' = [region EXCEPT !.next_client_id = @ + 1]
    /\ conn' = [conn EXCEPT ![s] = [@ EXCEPT !.pc = "connected",
                                             !.client_id = region.next_client_id]]
    /\ ids' = Append(ids, [shell |-> s, id |-> region.next_client_id,
                           created |-> conn[s].created])
    /\ UNCHANGED daemon
    /\ UNCHANGED <<seqVars, queueVars, appVars>>

\* (variant) a shell whose drop also unlinks the name
ConnectForget_Unlink(s) ==
    /\ conn[s].pc \in {"connected", "failed"}
    /\ conn' = [conn EXCEPT ![s] = ConnIdle]
    /\ region' = IF conn[s].pc = "connected" THEN [region EXCEPT !.kind = "unlinked"] ELSE region
    /\ UNCHANGED <<daemon, ids>>
    /\ UNCHANGED <<seqVars, queueVars, appVars>>

\* the shell drops its handle (Drop for VenomShm, not owner: munmap only), or takes
\* the error; it may connect again
ConnectForget(s) ==
    /\ conn[s].pc \in {"connected", "failed"}
    /\ conn' = [conn EXCEPT ![s] = ConnIdle]
    /\ UNCHANGED <<region, daemon, ids>>
    /\ UNCHANGED <<seqVars, queueVars, appVars>>

\* connect calls started so far
ConnectsStarted ==
    Len(ids) + Cardinality({s \in Shells : conn[s].pc \in {"opened", "checked", "failed"}})

(***************************************************************************)
(* The callers of the queue and the SeqLock: DaemonChannel::run,           *)
(* ShellChannel::request and the C bindings.                               *)
(***************************************************************************)
RunIdle ==
    [pc |-> "out", n |-> 0, client_id |-> 0, cmd |-> <<>>, response |-> <<>>, handled |-> <<>>]
ReqIdle == [pc |-> "idle", calls0 |-> 0, frames0 |-> 0, ret |-> 0, frame |-> 0]

(***************************************************************************)
(* ChannelHeader::total_size and the offsets DaemonChannel::create stamps. *)
(* usize is 64 bits wide: a value is five limbs of 16 bits, least          *)
(* significant first, the fifth holding what does not fit in 64 bits.      *)
(***************************************************************************)
Limb == 2 ^ 16

\* n < 2^31 as limbs
BigOf(n) == <<n % Limb, (n \div Limb) % Limb, 0, 0, 0>>

\* 2^64 - 1 - k, for k < 2^16
BigBelowMax(k) == <<Limb - 1 - k, Limb - 1, Limb - 1, Limb - 1, 0>>

\* the sum, exact
BigAdd(a, b) ==
    LET s1 == a[1] + b[1]
        s2 == a[2] + b[2] + s1 \div Limb
        s3 == a[3] + b[3] + s2 \div Limb
        s4 == a[4] + b[4] + s3 \div Limb
        s5 == a[5] + b[5] + s4 \div Limb
    IN  <<s1 % Limb, s2 % Limb, s3 % Limb, s4 % Limb, s5>>

RECURSIVE BigLeqFrom(_, _, _)
BigLeqFrom(a, b, i) ==
    IF i = 0 THEN TRUE
    ELSE IF a[i] # b[i] THEN a[i] < b[i] ELSE BigLeqFrom(a, b, i - 1)
BigLeq(a, b) == BigLeqFrom(a, b, 5)

\* usize addition as the release build does it (wrapping), and whether it wraps
Wrap(a) == [a EXCEPT ![5] = 0]
WrapAdd(a, b) == Wrap(BigAdd(a, b))
Overflows(a, b) == BigAdd(a, b)[5] # 0

\* let align = |size| (size + CACHE_LINE_SIZE - 1) & !(CACHE_LINE_SIZE - 1);
AlignUp(a) ==
    LET s == WrapAdd(a, BigOf(CACHE_LINE_SIZE - 1))
    IN  [s EXCEPT ![1] = @ - (@ % CACHE_LINE_SIZE)]
AlignOverflows(a) == Overflows(a, BigOf(CACHE_LINE_SIZE - 1))

\* MpscQueueHeader::size_for_slots
SizeForSlots(n) == SizeOfMpscQueueHeader + n * SizeOfCommandSlot

\* ChannelHeader::total_size(config)
TotalSize(ds, n) ==
    LET seqlock_size == WrapAdd(BigOf(SizeOfSeqLockHeader), ds)
    IN  WrapAdd(WrapAdd(AlignUp(BigOf(SizeOfChannelHeader)), AlignUp(seqlock_size)),
                AlignUp(BigOf(SizeForSlots(n))))

\* let seqlock_offset = align(size_of::<ChannelHeader>());
SeqlockOffset == AlignUp(BigOf(SizeOfChannelHeader))

\* let cmd_queue_offset = seqlock_offset + align(seqlock_size);
CmdQueueOffset(ds) ==
    WrapAdd(SeqlockOffset, AlignUp(WrapAdd(BigOf(SizeOfSeqLockHeader), ds)))

\* some usize addition of total_size or create exceeds 64 bits: a build with
\* overflow checks panics there, a build without them wraps
LayoutOverflows(ds, n) ==
    LET seqlock_size == WrapAdd(BigOf(SizeOfSeqLockHeader), ds)
        first == WrapAdd(AlignUp(BigOf(SizeOfChannelHeader)), AlignUp(seqlock_size))
    IN  \/ Overflows(BigOf(SizeOfSeqLockHeader), ds)
        \/ AlignOverflows(seqlock_size)
        \/ Overflows(AlignUp(BigOf(SizeOfChannelHeader)), AlignUp(seqlock_size))
        \/ Overflows(first, AlignUp(BigOf(SizeForSlots(n))))

\* ftruncate(fd, size as u64) takes an off_t: a size of 2^63 or more is refused
TooLargeForShm(size) == size[4] >= Limb \div 2

LayoutNone ==
    [pc |-> "none", data_size |-> BigOf(0), cmd_slots |-> 0, total_size |-> BigOf(0),
     seqlock_offset |-> BigOf(0), cmd_queue_offset |-> BigOf(0)]

\* DaemonChannel::create(name, config): the region is made with total_size bytes
\* and the two offsets are stamped into its header
CreateLayout ==
    /\ layout.pc = "config"
    /\ LET ds == layout.data_size
           n == layout.cmd_slots
           stamped == [layout EXCEPT !.pc = IF TooLargeForShm(TotalSize(ds, n))
                                           THEN "error" ELSE "created",
                                     !.total_size = TotalSize(ds, n),
                                     !.seqlock_offset = SeqlockOffset,
                                     !.cmd_queue_offset = CmdQueueOffset(ds)]
       IN  layout' \in IF LayoutOverflows(ds, n)
                       THEN {stamped, [layout EXCEPT !.pc = "panic"]}
                       ELSE {stamped}
    /\ UNCHANGED <<run, req, ffi>>
    /\ UNCHANGED <<seqVars, queueVars, chanVars>>

AppInit ==
    /\ run = RunIdle
    /\ req = [r \in Readers |-> ReqIdle]
    /\ ffi = <<>>
    /\ layout = LayoutNone

(***************************************************************************)
(* DaemonChannel::run.  The handler is the caller's: what it returns is    *)
(* chosen freely.                                                          *)
(***************************************************************************)
\* b"__SHUTDOWN__"
Shutdown == <<95, 95, 83, 72, 85, 84, 68, 79, 87, 78, 95, 95>>

\* pub fn run(&self, mut handler: F): let mut cmd_buf = [0u8; MAX_CMD_SIZE]; loop {
RunStart ==
    /\ run.pc = "out"
    /\ run' = [RunIdle EXCEPT !.pc = "recv"]
    /\ UNCHANGED <<req, ffi>>
    /\ UNCHANGED <<seqVars, queueVars, chanVars, layout>>

\* (variant) a loop that stops on any command beginning with the shutdown bytes
RunTake_StartsWith ==
    /\ run.pc = "recv"
    /\ consumer.pc = "idle"
    /\ Len(popped) > run.n
    /\ LET e == popped[run.n + 1]
           cmd == SubSeq(e.cmd, 1, e.cmd_len)
       IN  run' = [run EXCEPT !.pc = IF Len(cmd) >= Len(Shutdown)
                                        /\ SubSeq(cmd, 1, Len(Shutdown)) = Shutdown
                                     THEN "returned" ELSE "handle",
                              !.n = @ + 1, !.client_id = e.client_id, !.cmd = cmd]
    /\ UNCHANGED <<req, ffi>>
    /\ UNCHANGED <<seqVars, queueVars, chanVars, layout>>

\* let (client_id, cmd_len) = self.recv_command(&mut cmd_buf);   (pop has returned)
\* let cmd = &cmd_buf[..cmd_len];
\* if cmd == b"__SHUTDOWN__" { break; }
RunTake ==
    /\ run.pc = "recv"
    /\ consumer.pc = "idle"
    /\ Len(popped) > run.n
    /\ LET e == popped[run.n + 1]
           cmd == SubSeq(e.cmd, 1, e.cmd_len)
       IN  run' = [run EXCEPT !.pc = IF cmd = Shutdown THEN "returned" ELSE "handle",
                              !.n = @ + 1, !.client_id = e.client_id, !.cmd = cmd]
    /\ UNCHANGED <<req, ffi>>
    /\ UNCHANGED <<seqVars, queueVars, chanVars, layout>>

\* let response = handler(client_id, cmd);
RunHandle(response) ==
    /\ run.pc = "handle"
    /\ run' = [run EXCEPT !.pc = "write", !.response = response,
                          !.handled = Append(@, [client_id |-> run.client_id, cmd |-> run.cmd,
                                                 response |-> response])]
    /\ UNCHANGED <<req, ffi>>
    /\ UNCHANGED <<seqVars, queueVars, chanVars, layout>>

\* a loop that goes round without waiting for write_data_with_len
RunWritten_Early ==
    /\ run.pc = "write"
    /\ run' = [run EXCEPT !.pc = "recv"]
    /\ UNCHANGED <<req, ffi>>
    /\ UNCHANGED <<seqVars, queueVars, chanVars, layout>>

\* self.write_data_with_len(&response) has returned; the loop goes round
RunWritten ==
    /\ run.pc = "write"
    /\ writer.pc = "idle"
    /\ Len(wlog) = Len(run.handled)
    /\ run' = [run EXCEPT !.pc = "recv"]
    /\ UNCHANGED <<req, ffi>>
    /\ UNCHANGED <<seqVars, queueVars, chanVars, layout>>

(***************************************************************************)
(* ShellChannel::request.                                                  *)
(***************************************************************************)
\* pub fn request(&self, cmd, response_buf): the call; self.send_command(cmd) follows
RequestBegin(r) ==
    /\ req[r].pc = "idle"
    /\ producer[r].pc = "idle"
    /\ reader[r].pc = "idle"
    /\ req' = [req EXCEPT ![r] = [ReqIdle EXCEPT !.pc = "busy", !.calls0 = Len(tries[r]),
                                                 !.frames0 = Len(hist) - 1]]
    /\ UNCHANGED <<run, ffi>>
    /\ UNCHANGED <<seqVars, queueVars, chanVars, layout>>

\* send_command has not returned yet / has returned
RequestSending(r) == req[r].pc = "busy" /\ Len(tries[r]) = req[r].calls0
RequestReading(r) == req[r].pc = "busy" /\ Len(tries[r]) > req[r].calls0

\* let len = self.read_data_with_len(response_buf); if len > 0 { return len; } spin_loop()
RequestCheck(r) ==
    /\ RequestReading(r)
    /\ reader[r].pc = "done"
    /\ req' = [req EXCEPT ![r] =
                 IF reader[r].ret > 0
                 THEN [@ EXCEPT !.pc = "returned", !.ret = reader[r].ret,
                                !.frame = reader[r].seq1 \div 2]
                 ELSE @]
    /\ reader' = [reader EXCEPT ![r] = ReaderIdle]
    /\ UNCHANGED <<run, ffi>>
    /\ UNCHANGED <<sequence, data_size, data, writer, hist, wlog, queueVars, chanVars, layout>>

(***************************************************************************)
(* The C bindings (bindings.rs).  The daemon's calls are made by one       *)
(* thread, one after another.                                              *)
(***************************************************************************)
\* venom_daemon_write_data: daemon.write_data_with_len(slice)
FfiWriteOp == "write_with_len"

\* venom_shell_send_command: shell.try_send_command(slice)
FfiSendMode == "try"

\* the calls of venom_daemon_try_recv_command that returned a command
FfiDequeued == Len(SelectSeq(ffi, LAMBDA e : e.dequeued))

\* no call of the daemon is in progress
FfiDaemonIdle == writer.pc = "idle" /\ consumer.pc = "idle" /\ Len(popped) = FfiDequeued

\* venom_daemon_try_recv_command: match daemon.try_recv_command(slice) { None => 0 }
FfiTryRecvNone ==
    /\ FfiDaemonIdle
    /\ slots[SlotOf(read_idx)].state # READY
    /\ ffi' = Append(ffi, [ret |-> 0, dequeued |-> FALSE, out_written |-> FALSE, client_id |-> 0])
    /\ UNCHANGED <<run, req>>
    /\ UNCHANGED <<seqVars, queueVars, chanVars, layout>>

\* Some((client_id, len)) => { *out_client_id = client_id; len }
FfiTryRecvSome ==
    /\ consumer.pc = "idle"
    /\ Len(popped) > FfiDequeued
    /\ LET e == popped[FfiDequeued + 1]
       IN  ffi' = Append(ffi, [ret |-> e.cmd_len, dequeued |-> TRUE, out_written |-> TRUE,
                               client_id |-> e.client_id])
    /\ UNCHANGED <<run, req>>
    /\ UNCHANGED <<seqVars, queueVars, chanVars, layout>>

(***************************************************************************)
(* Specifications.                                                         *)
(***************************************************************************)
Init == SeqLockInit /\ MpscInit(1) /\ ChannelInit /\ AppInit

QueueInit == SeqLockInit /\ ChannelInit /\ AppInit /\ \E n \in 1 .. MaxSlots : MpscInit(n)

ForeignMagics == {0, VENOM_MAGIC, VENOM_MAGIC + 1}
ForeignVersions == {0, VENOM_VERSION - 1, VENOM_VERSION, VENOM_VERSION + 1}

ChannelNext ==
    \/ DaemonShmCreate
    \/ DaemonStampMagic
    \/ DaemonStampRest
    \/ \E m \in ForeignMagics, v \in ForeignVersions : ForeignRegion(m, v, IF m = 0 THEN 0 ELSE 1)
    \/ \E s \in Shells :
         /\ ConnectsStarted < MaxConnects
         /\ ConnectOpen(s)
    \/ \E s \in Shells : ConnectCheckMagic(s)
    \/ \E s \in Shells : ConnectAllocate(s)
    \/ \E s \in Shells : ConnectForget(s)
    \/ RegionTruncate
    \/ DaemonDrop

SpecChannel == Init /\ [][ChannelNext]_vars

QueueNext ==
    \/ \E p \in Shells, mode \in {"try", "push"} :
         /\ TotalCalls < MaxCmds
         /\ Send(p, mode)
    \/ \E p \in Shells : PushRetry(p)
    \/ \E p \in Shells : TryPushCas(p)
    \/ \E p \in Shells : TryPushStore(p)
    \/ \E p \in Shells : TryPushPublish(p)
    \/ TryPopCheck
    \/ TryPopMark
    \/ TryPopCopy
    \/ TryPopRelease
    \/ TryPopAdvance

SpecQueue == QueueInit /\ [][QueueNext]_vars

SeqLockNext ==
    \/ /\ Len(wlog) < MaxWrites
       /\ \E op \in {"write", "write_with_len"}, n \in 0 .. MaxLen :
            WriteBegin(op, Payload(Len(wlog) + 1, n))
    \/ WritePrefixByte
    \/ WriteCopyByte
    \/ WriteEnd
    \/ \E r \in Readers, op \in ReadOps, n \in 0 .. MaxBuf : ReadBegin(r, op, n)
    \/ \E r \in Readers : ReadLoad1(r)
    \/ \E r \in Readers : ReadPrefixByte(r)
    \/ \E r \in Readers : ReadCopyByte(r)
    \/ \E r \in Readers : ReadLoad2(r)
    \/ \E r \in Readers : ReadReturn(r)



SpecSeqLock == Init /\ [][SeqLockNext]_vars

(***************************************************************************)
(* A daemon inside run, shells that send commands, and shells that call    *)
(* request.  The shells 1 .. NumReaders call request; the others send.     *)
(***************************************************************************)
RunInit == SeqLockInit /\ MpscInit(1) /\ ChannelInit /\ AppInit

\* the commands a sending shell chooses from
RunCommands(p) == {Shutdown, Shutdown \o <<33>>, <<p>>}

\* calls of send_command and request started so far
RunCalls == TotalCalls + Cardinality({r \in Readers : RequestSending(r)})

RunNext ==
    \/ RunStart
    \/ /\ run.pc = "recv"
       /\ Len(popped) = run.n
       /\ TryPopCheck
    \/ TryPopMark
    \/ TryPopCopy
    \/ TryPopRelease
    \/ TryPopAdvance
    \/ RunTake
    \/ \E n \in 0 .. MaxResp : RunHandle(Payload(Len(run.handled) + 1, n))
    \/ /\ run.pc = "write"
       /\ Len(wlog) < Len(run.handled)
       /\ WriteBegin("write_with_len", run.response)
    \/ WritePrefixByte
    \/ WriteCopyByte
    \/ WriteEnd
    \/ RunWritten
    \/ \E p \in Shells \ Readers :
         \E cmd \in RunCommands(p) :
            /\ RunCalls < MaxRunCmds
            /\ SendCommand(p, "push", cmd)
    \/ \E r \in Readers :
         /\ RunCalls < MaxRunCmds
         /\ RequestBegin(r)
    \/ \E r \in Readers :
         /\ RequestSending(r)
         /\ SendCommand(r, "push", <<r>>)
    \/ \E p \in Shells : PushRetry(p)
    \/ \E p \in Shells : TryPushCas(p)
    \/ \E p \in Shells : TryPushStore(p)
    \/ \E p \in Shells : TryPushPublish(p)
    \/ \E r \in Readers :
         /\ RequestReading(r)
         /\ ReadBegin(r, "read_with_len", MaxResp)
    \/ \E r \in Readers : ReadLoad1(r)
    \/ \E r \in Readers : ReadPrefixByte(r)
    \/ \E r \in Readers : ReadCopyByte(r)
    \/ \E r \in Readers : ReadLoad2(r)
    \/ \E r \in Readers : RequestCheck(r)

SpecRun == RunInit /\ [][RunNext]_vars

(***************************************************************************)
(* A daemon and shells that use the C bindings only.                       *)
(***************************************************************************)
FfiInit == SeqLockInit /\ MpscInit(MaxSlots) /\ ChannelInit /\ AppInit

\* the commands a shell chooses from: the empty command and a one-byte command
FfiCommands(p) == {<<>>, <<p>>}

FfiNext ==
    \/ /\ FfiDaemonIdle
       /\ Len(wlog) < MaxWrites
       /\ \E n \in 0 .. MaxLen : WriteBegin(FfiWriteOp, Payload(Len(wlog) + 1, n))
    \/ WritePrefixByte
    \/ WriteCopyByte
    \/ WriteEnd
    \/ /\ Len(ffi) < MaxFfiCalls
       /\ FfiTryRecvNone
    \/ /\ Len(ffi) < MaxFfiCalls
       /\ FfiDaemonIdle
       /\ slots[SlotOf(read_idx)].state = READY
       /\ TryPopCheck
    \/ TryPopMark
    \/ TryPopCopy
    \/ TryPopRelease
    \/ TryPopAdvance
    \/ FfiTryRecvSome
    \/ \E p \in Shells :
         \E cmd \in FfiCommands(p) :
            /\ TotalCalls < MaxFfiCmds
            /\ SendCommand(p, FfiSendMode, cmd)
    \/ \E p \in Shells : TryPushCas(p)
    \/ \E p \in Shells : TryPushStore(p)
    \/ \E p \in Shells : TryPushPublish(p)

SpecFfi == FfiInit /\ [][FfiNext]_vars

(***************************************************************************)
(* Sequential use of the SeqLock: a call starts only when no other call is *)
(* in progress.  The region is either shorter than the longest payload or  *)
(* of the usual size; the length-prefixed calls are made only on a region  *)
(* that has room for the prefix.                                           *)
(***************************************************************************)
SequentialInit ==
    /\ MpscInit(1) /\ ChannelInit /\ AppInit
    /\ \E n \in {SmallDataSize, DataSize} : SeqLockInitSized(n)

Quiet == writer.pc = "idle" /\ \A r \in Readers : reader[r].pc = "idle"

SequentialNext ==
    \/ /\ Quiet
       /\ Len(wlog) < MaxWrites
       /\ \E op \in {"write", "write_with_len"}, n \in 0 .. MaxLen :
            /\ op = "write_with_len" => data_size >= PREFIX_LEN
            /\ WriteBegin(op, Payload(Len(wlog) + 1, n))
    \/ WritePrefixByte
    \/ WriteCopyByte
    \/ WriteEnd
    \/ /\ Quiet
       /\ \E r \in Readers, op \in ReadOps, n \in 0 .. MaxBuf :
            /\ op = "read_with_len" => data_size >= PREFIX_LEN
            /\ ReadBegin(r, op, n)
    \/ \E r \in Readers : ReadLoad1(r)
    \/ \E r \in Readers : ReadPrefixByte(r)
    \/ \E r \in Readers : ReadCopyByte(r)
    \/ \E r \in Readers : ReadLoad2(r)
    \/ \E r \in Readers : ReadReturn(r)

SpecSequential == SequentialInit /\ [][SequentialNext]_vars

(***************************************************************************)
(* Histories read by the properties.                                       *)
(***************************************************************************)
IsPrefix(a, b) == Len(a) <= Len(b) /\ \A i \in 1 .. Len(a) : a[i] = b[i]

\* the commands try_pop has returned, and those among them carrying client id p
PoppedCmds == [i \in 1 .. Len(popped) |-> popped[i].cmd]
PoppedOf(p) ==
    LET f == SelectSeq(popped, LAMBDA e : e.client_id = p)
    IN  [i \in 1 .. Len(f) |-> f[i].cmd]

\* the commands shell p has submitted so far, in submission order
Issued(p) == [k \in 1 .. Calls(p) |-> Cmd(p, k)]

\* shell p is the only shell that has called
OnlyShell(p) == \A q \in Shells \ {p} : Calls(q) = 0

\* the daemon's next try_pop returns none
DaemonStuck == consumer.pc = "idle" /\ slots[SlotOf(read_idx)].state # READY

RECURSIVE ReturnedUpTo(_)
ReturnedUpTo(p) == IF p = 0 THEN 0 ELSE Len(tries[p]) + ReturnedUpTo(p - 1)

(***************************************************************************)
(* C2  No lost command, single producer: with one shell that only uses     *)
(* send_command, the daemon dequeues the shell's commands in the order     *)
(* sent, and once the shell has finished and the daemon finds nothing      *)
(* more, it has dequeued every one of them.                                *)
(***************************************************************************)
C2_NoLostCommand ==
    \A p \in Shells :
        (OnlyShell(p) /\ api[p] = "push") =>
            /\ IsPrefix(PoppedCmds, Issued(p))
            /\ (producer[p].pc = "idle" /\ DaemonStuck) => Len(popped) = Len(tries[p])

(***************************************************************************)
(* C3  Per-producer order: the dequeued commands carrying client id p are  *)
(* shell p's commands in the order it submitted them with send_command.    *)
(***************************************************************************)
C3_PerProducerOrder ==
    \A p \in Shells : api[p] = "push" => IsPrefix(PoppedOf(p), Issued(p))

(***************************************************************************)
(* C4  Slot-FIFO completeness: once every shell has finished its           *)
(* send_command calls and the polling daemon finds nothing more, it has    *)
(* dequeued as many commands as the shells sent, each carrying the client  *)
(* id of its sender.                                                       *)
(***************************************************************************)
C4_Completeness ==
    ((\A p \in Shells : producer[p].pc = "idle" /\ api[p] \in {"none", "push"}) /\ DaemonStuck) =>
        /\ Len(popped) = ReturnedUpTo(NumShells)
        /\ \A i \in 1 .. Len(popped) : popped[i].cmd[1] = popped[i].client_id

(***************************************************************************)
(* C5  Queue-full backpressure: with two slots and an idle daemon a        *)
(* shell's first two try_send_command calls return true and the third      *)
(* false; after exactly one successful try_recv_command the shell's next   *)
(* try_send_command returns true.                                          *)
(***************************************************************************)
C5_Backpressure ==
    \A p \in Shells :
        LET t == tries[p] IN
        ( /\ num_slots = 2
          /\ OnlyShell(p)
          /\ api[p] = "try"
          /\ Len(t) = 4
          /\ \A i \in 1 .. 3 : t[i].pops0 = 0 /\ t[i].pops = 0
          /\ t[4].pops0 = 1 /\ t[4].pops = 1 )
        => (t[1].ok /\ t[2].ok /\ ~t[3].ok /\ t[4].ok)

(***************************************************************************)
(* C6  Meaning of queue-full: a try_push (with a command of at most        *)
(* MAX_CMD_SIZE bytes) returns false only if every slot was non-EMPTY at   *)
(* the moment of its claim; stated for a shell that is alone, so that no   *)
(* other producer is ever in the middle of a push.                         *)
(***************************************************************************)
C6_FalseOnlyWhenFull ==
    \A p \in Shells : OnlyShell(p) =>
        \A i \in 1 .. Len(tries[p]) : ~tries[p][i].ok => tries[p][i].full

(***************************************************************************)
(* C1  Tear freedom: every read, read_with_len or try_read that returns    *)
(* successfully delivers the payload region as it stood at one instant at  *)
(* which sequence was even (the instant of its first load of sequence):    *)
(* the bytes copied from the region equal that frame's bytes, and the      *)
(* length read_with_len reports is that frame's prefix.  When all writes   *)
(* are write calls of one length, what a read delivers is one of the       *)
(* written payloads or the initial all-zero frame.                         *)
(***************************************************************************)
FrameAt(sq) == hist[sq \div 2 + 1]
FramePrefix(f) == FromLe([i \in 1 .. PREFIX_LEN |-> f[i - 1]])

SameLengthWrites ==
    \A k \in 1 .. Len(wlog) :
        wlog[k].op = "write" /\ Len(wlog[k].payload) = Len(wlog[1].payload)

C1_TearFree ==
    \A r \in Readers :
        LET rd == reader[r] IN
        (rd.pc = "done" /\ rd.ok) =>
            /\ rd.seq1 % 2 = 0
            /\ rd.seq1 \div 2 + 1 <= Len(hist)
            /\ IF rd.op = "read_with_len"
               THEN /\ rd.ret = FramePrefix(FrameAt(rd.seq1))
                    /\ \A i \in 0 .. Min(rd.ret, Len(rd.buf)) - 1 :
                          PREFIX_LEN + i < data_size =>
                              rd.buf[i + 1] = FrameAt(rd.seq1)[PREFIX_LEN + i]
               ELSE /\ rd.ret = Min(data_size, Len(rd.buf))
                    /\ \A i \in 0 .. rd.ret - 1 : rd.buf[i + 1] = FrameAt(rd.seq1)[i]
                    /\ (SameLengthWrites /\ Len(wlog) > 0 /\ Len(rd.buf) <= Len(wlog[1].payload)) =>
                          \/ rd.buf = Zeros(Len(rd.buf))
                          \/ \E k \in 1 .. Len(wlog) :
                                rd.buf = SubSeq(wlog[k].payload, 1, Len(rd.buf))

\* a read that was called while a write was in progress and has returned the
\* frame of the second write, with a full buffer
C1_Witness ==
    \E r \in Readers :
        /\ reader[r].pc = "done" /\ reader[r].ok
        /\ reader[r].op = "read"
        /\ reader[r].begin = -1
        /\ reader[r].seq1 = 4
        /\ Len(reader[r].buf) = MaxBuf
        /\ reader[r].buf # Zeros(MaxBuf)

(***************************************************************************)
(* C7  Length-prefixed round trip: a read_with_len that runs after         *)
(* write_with_len(p) has returned and before a later write starts, with    *)
(* len(p) <= data_size - 8, returns len(p) whatever the buffer length, and *)
(* fills the buffer with the first min(len(p), buf.len) bytes of p (the    *)
(* rest of the buffer is left as it was).                                  *)
(***************************************************************************)
C7_RoundTrip ==
    \A r \in Readers :
        LET rd == reader[r] IN
        ( /\ rd.pc = "done"
          /\ rd.op = "read_with_len"
          /\ rd.begin >= 1
          /\ rd.begin = Len(wlog)
          /\ wlog[rd.begin].op = "write_with_len"
          /\ Len(wlog[rd.begin].payload) <= data_size - PREFIX_LEN )
        => LET p == wlog[rd.begin].payload
               n == Min(Len(p), Len(rd.buf))
           IN  /\ rd.ok
               /\ rd.ret = Len(p)
               /\ rd.buf = SubSeq(p, 1, n) \o Zeros(Len(rd.buf) - n)

\* a two-byte frame read back into a one-byte buffer
C7_Witness ==
    \E r \in Readers :
        /\ reader[r].pc = "done" /\ reader[r].op = "read_with_len"
        /\ reader[r].begin = 2 /\ Len(wlog) = 2
        /\ wlog[2].op = "write_with_len" /\ Len(wlog[2].payload) = 2
        /\ Len(reader[r].buf) = 1
        /\ reader[r].ret = 2

(***************************************************************************)
(* C8  Handshake: on a channel created by DaemonChannel::create, the k-th  *)
(* successful connect receives client id k; shells connected at the same   *)
(* time hold pairwise distinct, non-zero ids.                              *)
(***************************************************************************)
C8_Handshake ==
    /\ \A k \in 1 .. Len(ids) :
          (\A j \in 1 .. k : ids[j].created) => ids[k].id = k
    /\ (\A j \in 1 .. Len(ids) : ids[j].created) =>
          \A s, t \in Shells :
              (conn[s].pc = "connected" /\ conn[t].pc = "connected" /\ s # t) =>
                  /\ conn[s].client_id # conn[t].client_id
                  /\ conn[s].client_id \in 1 .. Len(ids)

\* two shells attached at once, the second shell having been served first
C8_Witness ==
    /\ Len(ids) >= 2
    /\ \A j \in 1 .. Len(ids) : ids[j].created
    /\ conn[1].pc = "connected" /\ conn[2].pc = "connected"
    /\ conn[2].client_id = 1 /\ conn[1].client_id = 2

(***************************************************************************)
(* C9  Magic mismatch: a connect that finds a first word other than        *)
(* 0x564E4F4D fails with InvalidMagic{expected = 0x564E4F4D, got = the     *)
(* word found}, allocates no id, and leaves the region as it was.          *)
(***************************************************************************)
C9_MagicMismatch ==
    [][\A s \in Shells :
         (conn[s].pc = "opened" /\ region.magic # VENOM_MAGIC /\ conn'[s] # conn[s]) =>
             /\ conn'[s].pc = "failed"
             /\ conn'[s].err = "InvalidMagic"
             /\ conn'[s].expected = VENOM_MAGIC
             /\ conn'[s].got = region.magic
             /\ conn'[s].client_id = 0
             /\ region' = region
             /\ ids' = ids]_vars

\* the attach to an all-zero region made with the operating system's primitives
C9_Witness ==
    \E s \in Shells :
        /\ region.kind = "foreign"
        /\ conn[s].pc = "failed" /\ conn[s].err = "InvalidMagic"
        /\ conn[s].expected = VENOM_MAGIC /\ conn[s].got = 0

(***************************************************************************)
(* C10  Version mismatch: a connect to a region whose magic is the         *)
(* sentinel but whose version is not 2 fails before a client id is         *)
(* allocated; no shell holds a handle on, or an id from, such a region.    *)
(***************************************************************************)
C10_VersionMismatch ==
    ((\E s \in Shells : conn[s].pc = "connected") \/ Len(ids) > 0) =>
        region.version = VENOM_VERSION

(***************************************************************************)
(* C11  Sequence parity: sequence starts at 0; it is even exactly when the *)
(* writer is outside write / write_with_len and odd exactly when it is     *)
(* inside; every completed write has raised it by exactly 2 (it equals     *)
(* twice the number of writes started, less one while a write is in        *)
(* progress); and no step decreases it.                                    *)
(***************************************************************************)
C11_SequenceParity ==
    /\ [](/\ (sequence % 2 = 0) <=> (writer.pc = "idle")
          /\ sequence = 2 * Len(wlog) - (IF writer.pc = "idle" THEN 0 ELSE 1)
          /\ Len(wlog) = 0 => sequence = 0)
    /\ [][sequence' >= sequence]_vars

\* the writer in the middle of the copy of its second write
C11_Witness ==
    /\ sequence = 3
    /\ writer.pc = "copy" /\ writer.i = 1
    /\ Len(wlog) = 2

(***************************************************************************)
(* C12  Silent truncation: write(p) with len(p) > data_size stores exactly *)
(* the first data_size bytes of p and returns; write_with_len(p) with      *)
(* len(p) > data_size - 8 stores the prefix data_size - 8 followed by the  *)
(* first data_size - 8 bytes of p, and a following read_with_len reports   *)
(* data_size - 8.  No write stores a byte past the region.                 *)
(***************************************************************************)
LastWrite == wlog[Len(wlog)]

C12_Truncation ==
    /\ writer.pc # "idle" => WriteBase(writer.op) + writer.len <= data_size
    /\ (writer.pc = "idle" /\ Len(wlog) > 0) =>
          LET p == LastWrite.payload IN
          /\ (LastWrite.op = "write" /\ Len(p) > data_size) =>
                \A j \in 0 .. data_size - 1 : data[j] = p[j + 1]
          /\ (LastWrite.op = "write_with_len" /\ Len(p) > data_size - PREFIX_LEN) =>
                /\ FromLe([i \in 1 .. PREFIX_LEN |-> data[i - 1]]) = data_size - PREFIX_LEN
                /\ \A j \in 0 .. data_size - PREFIX_LEN - 1 : data[PREFIX_LEN + j] = p[j + 1]
                /\ \A r \in Readers :
                      (reader[r].pc = "done" /\ reader[r].op = "read_with_len") =>
                          reader[r].ok /\ reader[r].ret = data_size - PREFIX_LEN

\* a write of the longest payload into the short region has returned
C12_Witness ==
    /\ data_size = SmallDataSize
    /\ writer.pc = "idle" /\ Len(wlog) = 1
    /\ LastWrite.op = "write" /\ Len(LastWrite.payload) = MaxLen
    /\ data[data_size - 1] = LastWrite.payload[data_size]

(***************************************************************************)
(* C13  try_read is a single attempt: one load of sequence, one copy, one  *)
(* re-load, no loop.  It returns None exactly when the first load is odd   *)
(* or the second load differs from the first; otherwise it returns         *)
(* Some(min(data_size, buf.len)) and the buffer holds the frame of the     *)
(* first load.                                                             *)
(***************************************************************************)
TryReadStep(r) ==
    LET rd == reader[r]
        rn == reader'[r]
    IN  (rd.op = "try_read" /\ rn # rd) =>
            /\ rd.pc = "load1" =>
                  IF sequence % 2 = 1
                  THEN rn.pc = "done" /\ ~rn.ok
                  ELSE rn.pc = "copy" /\ rn.seq1 = sequence
            /\ (rd.pc = "copy" /\ rd.i = CopyLen(rd)) =>
                  /\ rn.pc = "done"
                  /\ rn.ok <=> (rd.seq1 = sequence)
                  /\ rn.ok => rn.ret = Min(data_size, Len(rd.buf))
            /\ rn.pc # "load1"

C13_TryReadOnce ==
    /\ [][\A r \in Readers : TryReadStep(r)]_vars
    /\ [](\A r \in Readers :
            (reader[r].op = "try_read" /\ reader[r].pc = "done" /\ reader[r].ok) =>
                \A i \in 0 .. reader[r].ret - 1 :
                    reader[r].buf[i + 1] = FrameAt(reader[r].seq1)[i])

\* a try_read that found sequence even, copied, and found it changed
C13_Witness ==
    \E r \in Readers :
        /\ reader[r].op = "try_read" /\ reader[r].pc = "done"
        /\ ~reader[r].ok
        /\ reader[r].seq1 % 2 = 0
        /\ reader[r].i = MaxBuf

(***************************************************************************)
(* C14  The writer is wait-free: while a write / write_with_len call is in *)
(* progress the writer's next step can always be taken, whatever the       *)
(* readers are doing, and each of its steps brings the call one step       *)
(* nearer its end (a call takes 2 + len steps, 8 more with the prefix).    *)
(* No step of a reader changes sequence, a payload byte or the writer.     *)
(***************************************************************************)
\* the steps a call in progress still has to take
WriterStepsLeft(w) ==
    IF w.pc = "idle" THEN 0
    ELSE IF w.pc = "prefix" THEN (PREFIX_LEN - w.i) + w.len + 1
    ELSE (w.len - w.i) + 1

C14_WriterWaitFree ==
    /\ [](writer.pc # "idle" => ENABLED (WritePrefixByte \/ WriteCopyByte \/ WriteEnd))
    /\ [][writer' # writer =>
            IF writer.pc = "idle"
            THEN WriterStepsLeft(writer') =
                    (IF writer'.op = "write_with_len" THEN PREFIX_LEN ELSE 0) + writer'.len + 1
            ELSE WriterStepsLeft(writer') = WriterStepsLeft(writer) - 1]_vars
    /\ [][reader' # reader =>
            (sequence' = sequence /\ data' = data /\ writer' = writer)]_vars

\* the writer and a reader in the middle of their copies at the same time
C14_Witness ==
    /\ writer.pc = "copy" /\ writer.i = 1 /\ writer.len > 1
    /\ \E r \in Readers : reader[r].pc = "copy" /\ reader[r].i = 1

(***************************************************************************)
(* C15  Shutdown: run returns when, and only when, the command it has just *)
(* dequeued is exactly __SHUTDOWN__; the handler is never invoked on that  *)
(* command and no frame is published for it; every other command is handed *)
(* to the handler, in the order dequeued, and keeps the loop running.      *)
(***************************************************************************)
\* the commands run has taken so far, and those among them it did not stop on
RunTaken == [i \in 1 .. run.n |-> [client_id |-> popped[i].client_id, cmd |-> popped[i].cmd]]
RunTakenOthers == SelectSeq(RunTaken, LAMBDA e : e.cmd # Shutdown)
\* the handler's invocations so far: the client id and the bytes it was given
RunHandled ==
    [i \in 1 .. Len(run.handled) |->
        [client_id |-> run.handled[i].client_id, cmd |-> run.handled[i].cmd]]

C15_Shutdown ==
    /\ run.pc = "returned" <=> (run.n > 0 /\ popped[run.n].cmd = Shutdown)
    /\ \A i \in 1 .. run.n - 1 : popped[i].cmd # Shutdown
    /\ \A i \in 1 .. Len(run.handled) : run.handled[i].cmd # Shutdown
    /\ RunHandled = IF run.pc = "handle"
                     THEN SubSeq(RunTakenOthers, 1, Len(RunTakenOthers) - 1)
                     ELSE RunTakenOthers
    /\ Len(wlog) <= Len(run.handled)
    /\ run.pc \in {"recv", "returned"} => Len(wlog) = Len(run.handled)
    /\ run.pc = "returned" => (consumer.pc = "idle" /\ writer.pc = "idle" /\ Len(popped) = run.n)

\* run has returned on its second command, after handling one that begins with
\* the shutdown bytes and publishing a frame for it
C15_Witness ==
    /\ run.pc = "returned"
    /\ run.n = 2
    /\ Len(run.handled) = 1 /\ run.handled[1].cmd = Shutdown \o <<33>>
    /\ Len(wlog) = 1

(***************************************************************************)
(* C16  request(cmd, buf) returns only after a new response appears: the   *)
(* frame whose length it returns is non-empty and was published after the  *)
(* command was sent, never a frame that was in the data region before the  *)
(* call.                                                                   *)
(***************************************************************************)
C16_RequestFresh ==
    \A r \in Readers :
        req[r].pc = "returned" =>
            /\ req[r].ret > 0
            /\ req[r].frame > req[r].frames0

(***************************************************************************)
(* C17  Teardown ownership: a shell dropping its handle leaves the name    *)
(* and the region as they are, so that connect keeps succeeding while the  *)
(* daemon handle lives; the daemon dropping its handle unlinks the name    *)
(* and touches nothing else (the shells attached stay attached, the frame  *)
(* they read stays what it was); from then on connect fails with ShmOpen.  *)
(***************************************************************************)
C17_Teardown ==
    /\ [][\A s \in Shells :
            (conn[s].pc = "connected" /\ conn'[s].pc = "idle") =>
                (region' = region /\ daemon' = daemon)]_vars
    /\ [][(daemon = "created" /\ daemon' = "dropped") =>
            /\ region' = [region EXCEPT !.kind = "unlinked"]
            /\ conn' = conn
            /\ seqVars' = seqVars
            /\ queueVars' = queueVars]_vars
    /\ [][\A s \in Shells :
            (conn[s].pc = "idle" /\ conn'[s] # conn[s]) =>
                /\ daemon = "created" => conn'[s].pc = "opened"
                /\ daemon = "dropped" => (conn'[s].pc = "failed" /\ conn'[s].err = "ShmOpen")]_vars
    /\ [](daemon = "created" => region.kind = "daemon")
    /\ [](daemon = "dropped" => region.kind = "unlinked")

\* both shells have connected, shell 2 has dropped its handle, the daemon has
\* dropped its own; shell 1 is still attached and shell 2 cannot connect again
C17_Witness ==
    /\ daemon = "dropped"
    /\ Len(ids) = 2
    /\ conn[1].pc = "connected"
    /\ conn[2].pc = "failed" /\ conn[2].err = "ShmOpen"

(***************************************************************************)
(* C18  Truncated region: connect on a region with a valid magic that is   *)
(* smaller than the layout its header declares fails, allocates no client  *)
(* id and builds no view; no shell is attached to, and no id was taken     *)
(* from, a region that does not fit its layout.                            *)
(***************************************************************************)
C18_TruncatedRegion ==
    (region.magic = VENOM_MAGIC /\ region.version = VENOM_VERSION /\ ~region.fits) =>
        (ids = <<>> /\ \A s \in Shells : conn[s].pc # "connected")

(***************************************************************************)
(* C19  FFI receive convention: venom_daemon_try_recv_command returns 0 if *)
(* and only if it dequeued no command; a command it dequeued, the empty    *)
(* command included, is told apart from "none" by the return value.        *)
(***************************************************************************)
C19_FfiRecvConvention ==
    \A i \in 1 .. Len(ffi) : (ffi[i].ret = 0) <=> ~ffi[i].dequeued

(***************************************************************************)
(* C20  FFI write convention: after venom_daemon_write_data(handle, ptr,   *)
(* len) returns, the payload region starts with the payload bytes          *)
(* themselves (no length prefix).                                          *)
(***************************************************************************)
C20_FfiWriteNoPrefix ==
    (writer.pc = "idle" /\ Len(wlog) > 0) =>
        \A j \in 0 .. Min(Len(LastWrite.payload), data_size) - 1 :
            data[j] = LastWrite.payload[j + 1]

(***************************************************************************)
(* A queue at the edges of its configuration: DaemonChannel::create passes *)
(* config.cmd_slots to MpscQueueHeader::init unchecked, the shells submit  *)
(* commands up to and past MAX_CMD_SIZE, and the daemon's buffer may be    *)
(* shorter than a command.                                                 *)
(***************************************************************************)
\* ChannelConfig.cmd_slots: none, one, and more than MAX_SLOTS
ConfigSlots == {0, 1, MAX_SLOTS + 1}

\* the lengths of the buffer handed to try_recv_command
ConfigBufs == {0, 1, MAX_CMD_SIZE}

\* n bytes, all equal to b
Blob(b, n) == [j \in 1 .. n |-> b]

\* the commands a shell chooses from: short, of exactly MAX_CMD_SIZE bytes, one byte more
BoundaryCommands(p) == {Blob(p, 2), Blob(p, MAX_CMD_SIZE), Blob(p, MAX_CMD_SIZE + 1)}

BoundaryInit ==
    /\ SeqLockInit /\ ChannelInit /\ AppInit
    /\ \E n \in ConfigSlots, b \in ConfigBufs : MpscInitBuf(n, b)

BoundaryNext ==
    \/ \E p \in Shells :
         \E cmd \in BoundaryCommands(p) :
            /\ TotalCalls < MaxBoundaryCalls
            /\ SendCommand(p, "try", cmd)
    \/ \E p \in Shells : TryPushCas(p)
    \/ \E p \in Shells : TryPushStore(p)
    \/ \E p \in Shells : TryPushPublish(p)
    \/ TryPopCheck
    \/ TryPopMark
    \/ TryPopCopy
    \/ TryPopRelease
    \/ TryPopAdvance

SpecBoundary == BoundaryInit /\ [][BoundaryNext]_vars

(***************************************************************************)
(* C21  The library never aborts: for every ChannelConfig, cmd_slots = 0   *)
(* and cmd_slots > 64 included, every try_send_command and                 *)
(* try_recv_command after create returns a value; none ends in a panic     *)
(* such as a remainder by zero on num_slots.                               *)
(***************************************************************************)
C21_NeverAborts ==
    /\ \A p \in Shells : producer[p].pc # "abort"
    /\ consumer.pc # "abort"

(***************************************************************************)
(* C22  read_idx <= write_idx always; neither index ever decreases;        *)
(* read_idx is the number of commands dequeued; write_idx is the number of *)
(* slot claims, one by every try_push call, successful or failed, that     *)
(* passed the size check.                                                  *)
(***************************************************************************)
\* this step is a slot claim of shell p: its try_push has done its fetch_add
ClaimStep(p) == producer[p].pc \in {"idle", "claim"} /\ producer'[p].pc \in {"cas", "abort"}

\* while every shell has used try_send_command only, each call makes one claim
IndicesCount ==
    /\ read_idx <= write_idx
    /\ read_idx = Len(popped)
    /\ (\A p \in Shells : api[p] \in {"none", "try"}) => write_idx = TotalCalls
    /\ write_idx >= TotalCalls

C22_QueueIndices ==
    [][ /\ IndicesCount /\ IndicesCount'
        /\ read_idx' \in {read_idx, read_idx + 1}
        /\ read_idx' = read_idx + 1 <=> Len(popped') = Len(popped) + 1
        /\ \/ /\ write_idx' = write_idx + 1
              /\ \E p \in Shells : ClaimStep(p) /\ producer'[p].idx = write_idx
           \/ /\ write_idx' = write_idx
              /\ \A p \in Shells : ~ClaimStep(p) ]_vars

\* two commands dequeued after four claims, one of which failed
C22_Witness ==
    /\ read_idx = 2
    /\ write_idx = 4
    /\ \E p \in Shells : \E i \in 1 .. Len(tries[p]) : ~tries[p][i].ok

(***************************************************************************)
(* C23  try_push with a command longer than MAX_CMD_SIZE returns false at  *)
(* once and leaves the whole queue, write_idx included, unchanged; so      *)
(* every slot's cmd_len and every length try_pop returns is at most        *)
(* MAX_CMD_SIZE.                                                           *)
(***************************************************************************)
\* shell p's call returns in the step that starts it: the size check refused it
RefusedStep(p) == producer[p].pc = "idle" /\ Len(tries'[p]) = Len(tries[p]) + 1

C23_SizeBound ==
    [][ /\ \A p \in Shells :
             RefusedStep(p) =>
               /\ ~tries'[p][Len(tries'[p])].ok
               /\ producer'[p] = ProducerIdle
               /\ UNCHANGED <<num_slots, write_idx, read_idx, slots, consumer, popped, sent>>
        /\ \A p \in Shells : producer'[p].pc # "idle" => Len(producer'[p].cmd) <= MAX_CMD_SIZE
        /\ \A j \in DOMAIN slots' :
             slots'[j].cmd_len <= MAX_CMD_SIZE /\ Len(slots'[j].cmd_data) = slots'[j].cmd_len
        /\ \A i \in 1 .. Len(popped') : popped'[i].cmd_len <= MAX_CMD_SIZE ]_vars

\* a shell has sent a command of exactly MAX_CMD_SIZE bytes, and its next call
\* was refused without a claim
C23_Witness ==
    /\ write_idx = 1
    /\ \E p \in Shells :
         /\ Len(tries[p]) = 2 /\ tries[p][1].ok /\ ~tries[p][2].ok
         /\ \E j \in DOMAIN slots :
              slots[j].state = READY /\ slots[j].client_id = p /\ slots[j].cmd_len = MAX_CMD_SIZE

(***************************************************************************)
(* DaemonChannel::create applied to configurations with a small data_size  *)
(* and with a data_size near the top of usize.                             *)
(***************************************************************************)
\* small sizes, 2^63, and the sizes just below 2^64
LayoutDataSizes ==
    {BigOf(n) : n \in 0 .. MaxLayoutSmall}
      \cup {<<0, 0, 0, Limb \div 2, 0>>}
      \cup {BigBelowMax(k) : k \in 0 .. MaxLayoutNear}

LayoutInit ==
    /\ SeqLockInit /\ MpscInit(1) /\ ChannelInit
    /\ run = RunIdle
    /\ req = [r \in Readers |-> ReqIdle]
    /\ ffi = <<>>
    /\ \E ds \in LayoutDataSizes, n \in 1 .. MaxSlots :
         layout = [LayoutNone EXCEPT !.pc = "config", !.data_size = ds, !.cmd_slots = n]

LayoutNext == CreateLayout

SpecLayout == LayoutInit /\ [][LayoutNext]_vars

(***************************************************************************)
(* C24  Layout fit: for every data_size >= 0 and cmd_slots >= 1 the        *)
(* offsets create stamps satisfy seqlock_offset >= sizeof(ChannelHeader),  *)
(* seqlock_offset + sizeof(SeqLockHeader) + data_size <= cmd_queue_offset, *)
(* cmd_queue_offset + sizeof(MpscQueueHeader) + cmd_slots *                *)
(* sizeof(CommandSlot) <= total_size, and both offsets are multiples of 64.*)
(***************************************************************************)
C24_LayoutFit ==
    layout.pc = "created" =>
      /\ BigLeq(BigOf(SizeOfChannelHeader), layout.seqlock_offset)
      /\ BigLeq(BigAdd(BigAdd(layout.seqlock_offset, BigOf(SizeOfSeqLockHeader)),
                       layout.data_size),
                layout.cmd_queue_offset)
      /\ BigLeq(BigAdd(layout.cmd_queue_offset, BigOf(SizeForSlots(layout.cmd_slots))),
                layout.total_size)
      /\ layout.seqlock_offset[1] % 64 = 0
      /\ layout.cmd_queue_offset[1] % 64 = 0

(***************************************************************************)
(* A channel from DaemonChannel::create on: the daemon creates it, then    *)
(* shells connect, and the two sides read, publish, send and receive, one  *)
(* call at a time.                                                         *)
(***************************************************************************)
\* no call on the data region or on the queue is in progress
AllQuiet ==
    /\ Quiet
    /\ consumer.pc = "idle"
    /\ \A p \in Shells : producer[p].pc = "idle"

FreshNext ==
    \/ DaemonShmCreate
    \/ DaemonStampMagic
    \/ DaemonStampRest
    \/ \E s \in Shells :
         /\ daemon = "created"
         /\ ConnectOpen(s)
    \/ \E s \in Shells : ConnectCheckMagic(s)
    \/ \E s \in Shells : ConnectAllocate(s)
    \/ /\ daemon = "created"
       /\ AllQuiet
       /\ Len(wlog) < MaxFreshWrites
       /\ \E op \in {"write", "write_with_len"}, n \in 0 .. MaxLen :
            WriteBegin(op, Payload(Len(wlog) + 1, n))
    \/ WritePrefixByte
    \/ WriteCopyByte
    \/ WriteEnd
    \/ /\ daemon = "created"
       /\ AllQuiet
       /\ \E r \in Readers, op \in ReadOps, n \in 0 .. MaxBuf : ReadBegin(r, op, n)
    \/ \E r \in Readers : ReadLoad1(r)
    \/ \E r \in Readers : ReadPrefixByte(r)
    \/ \E r \in Readers : ReadCopyByte(r)
    \/ \E r \in Readers : ReadLoad2(r)
    \/ \E r \in Readers : ReadReturn(r)
    \/ \E p \in Shells :
         /\ daemon = "created"
         /\ AllQuiet
         /\ TotalCalls < MaxFreshCmds
         /\ Send(p, "try")
    \/ \E p \in Shells : TryPushCas(p)
    \/ \E p \in Shells : TryPushStore(p)
    \/ \E p \in Shells : TryPushPublish(p)
    \/ /\ daemon = "created"
       /\ AllQuiet
       /\ TryPopCheck
    \/ TryPopMark
    \/ TryPopCopy
    \/ TryPopRelease
    \/ TryPopAdvance

SpecFresh == Init /\ [][FreshNext]_vars

(***************************************************************************)
(* C25  Right after create returns the header holds magic 0x564E4F4D,      *)
(* version 2 and next_client_id 1, the SeqLock sequence is 0, write_idx    *)
(* and read_idx are 0 and every slot is EMPTY.  So before any publish      *)
(* read_with_len returns 0 and read returns all-zero bytes, and before any *)
(* send try_recv_command returns none.                                     *)
(***************************************************************************)
C25_InitialState ==
    /\ daemon = "created" =>
         /\ region.magic = VENOM_MAGIC
         /\ region.version = VENOM_VERSION
         /\ region.next_client_id = 1 + Len(ids)
    /\ (Len(wlog) = 0 /\ writer.pc = "idle") =>
         /\ sequence = 0
         /\ \A r \in Readers :
              reader[r].pc = "done" =>
                /\ reader[r].ok
                /\ reader[r].buf = Zeros(Len(reader[r].buf))
                /\ reader[r].ret = IF reader[r].op = "read_with_len" THEN 0
                                   ELSE Min(data_size, Len(reader[r].buf))
    /\ TotalCalls = 0 =>
         /\ write_idx = 0 /\ read_idx = 0
         /\ \A j \in 0 .. num_slots - 1 : slots[j].state = EMPTY
         /\ consumer.pc = "idle" /\ popped = <<>>

\* on the fresh channel, with no shell attached yet, read_with_len into a
\* buffer of MaxBuf bytes has returned 0
C25_Witness ==
    /\ daemon = "created" /\ ids = <<>> /\ region.next_client_id = 1
    /\ Len(wlog) = 0 /\ TotalCalls = 0
    /\ \E r \in Readers :
         /\ reader[r].pc = "done" /\ reader[r].op = "read_with_len"
         /\ Len(reader[r].buf) = MaxBuf /\ reader[r].ret = 0

(***************************************************************************)
(* C26  Slot state machine: a slot's state changes only EMPTY -> WRITING   *)
(* (a producer's successful compare-exchange), WRITING -> READY (that same *)
(* producer), READY -> PROCESSING and PROCESSING -> EMPTY (the consumer);  *)
(* no other transition happens and no other actor makes one; every slot    *)
(* starts EMPTY.                                                           *)
(***************************************************************************)
\* shell p won slot j with its compare-exchange and has not published yet
HoldsSlot(p, j) == producer[p].pc \in {"store", "publish"} /\ SlotOf(producer[p].idx) = j

\* the consumer is between marking slot j PROCESSING and releasing it
ConsumerHolds(j) == consumer.pc \in {"copy", "release"} /\ SlotOf(consumer.ridx) = j

C26_SlotStateMachine ==
    [][ \A j \in 0 .. num_slots - 1 :
          /\ write_idx = 0 => slots[j].state = EMPTY
          /\ slots[j].state \in {EMPTY, WRITING, READY, PROCESSING}
          /\ slots[j].state = WRITING <=> \E p \in Shells : HoldsSlot(p, j)
          /\ Cardinality({p \in Shells : HoldsSlot(p, j)}) <= 1
          /\ slots[j].state = PROCESSING <=> ConsumerHolds(j)
          /\ slots'[j].state # slots[j].state =>
               \/ /\ slots[j].state = EMPTY /\ slots'[j].state = WRITING
                  /\ \E p \in Shells :
                       /\ producer[p].pc = "cas" /\ SlotOf(producer[p].idx) = j
                       /\ producer'[p].pc = "store"
               \/ /\ slots[j].state = WRITING /\ slots'[j].state = READY
                  /\ \E p \in Shells :
                       /\ HoldsSlot(p, j) /\ producer[p].pc = "publish"
                       /\ producer'[p].pc = "idle"
               \/ /\ slots[j].state = READY /\ slots'[j].state = PROCESSING
                  /\ consumer.pc = "mark" /\ SlotOf(consumer.ridx) = j
                  /\ consumer'.pc = "copy"
               \/ /\ slots[j].state = PROCESSING /\ slots'[j].state = EMPTY
                  /\ consumer.pc = "release" /\ SlotOf(consumer.ridx) = j
                  /\ consumer'.pc = "advance" ]_vars

\* with two slots: the consumer holds one in PROCESSING while a producer holds
\* the other in WRITING, after a first command went all the way round
C26_Witness ==
    /\ num_slots = 2
    /\ Len(popped) >= 1
    /\ \E j \in 0 .. 1 : slots[j].state = PROCESSING /\ slots[1 - j].state = WRITING

(***************************************************************************)
(* C27  Command integrity: a READY slot holds the client id, length and    *)
(* bytes of one successful try_push by the shell with that id; every       *)
(* (client_id, len, bytes) try_pop returns is a command that shell pushed  *)
(* successfully; each successful push is returned at most once.  (Every    *)
(* command of a shell is distinct, so a second return shows as a repeat.)  *)
(***************************************************************************)
\* shell p has pushed exactly these bytes successfully
Pushed(p, bytes) == p \in Shells /\ \E k \in 1 .. Len(sent[p]) : sent[p][k] = bytes

C27_CommandIntegrity ==
    /\ \A j \in 0 .. num_slots - 1 :
         slots[j].state = READY =>
           /\ Pushed(slots[j].client_id, slots[j].cmd_data)
           /\ slots[j].cmd_len = Len(slots[j].cmd_data)
    /\ \A i \in 1 .. Len(popped) :
         /\ Pushed(popped[i].client_id, popped[i].cmd)
         /\ popped[i].cmd_len = Len(popped[i].cmd)
    /\ \A i, k \in 1 .. Len(popped) : i # k => popped[i] # popped[k]

\* commands of two shells have been returned and a third waits READY
C27_Witness ==
    /\ Len(popped) = 2
    /\ popped[1].client_id # popped[2].client_id
    /\ \E j \in 0 .. num_slots - 1 : slots[j].state = READY

(***************************************************************************)
(* C28  Effect of try_pop: if the slot at read_idx mod num_slots is not    *)
(* READY it returns none and changes nothing; otherwise it returns         *)
(* (client_id, cmd_len) with the full stored cmd_len even when the buffer  *)
(* is shorter, copies only min(cmd_len, buf.len) bytes, leaves the slot    *)
(* EMPTY, advances read_idx by exactly 1, and touches no other slot nor    *)
(* write_idx.                                                              *)
(***************************************************************************)
\* the slot the consumer is at
HeadSlot == SlotOf(read_idx)

\* what try_pop may do to the slots in one step: set the head slot's state
SlotsWithHead(st) == [slots EXCEPT ![HeadSlot].state = st]

C28_TryPopEffect ==
    [][ num_slots >= 1 =>
          /\ (consumer.pc = "idle" /\ slots[HeadSlot].state # READY) =>
               UNCHANGED <<consumer, read_idx, popped>>
          /\ consumer' # consumer =>
               /\ UNCHANGED <<write_idx, producer, sent, tries>>
               /\ \/ /\ consumer.pc = "idle" /\ consumer'.pc = "mark"
                     /\ slots[HeadSlot].state = READY
                     /\ UNCHANGED <<slots, read_idx, popped>>
                  \/ /\ consumer.pc = "mark" /\ consumer'.pc = "copy"
                     /\ slots' = SlotsWithHead(PROCESSING)
                     /\ UNCHANGED <<read_idx, popped>>
                  \/ /\ consumer.pc = "copy" /\ consumer'.pc = "release"
                     /\ consumer'.client_id = slots[HeadSlot].client_id
                     /\ consumer'.cmd_len = Len(slots[HeadSlot].cmd_data)
                     /\ consumer'.buf = SubSeq(slots[HeadSlot].cmd_data, 1,
                                               Min(Len(slots[HeadSlot].cmd_data), buf_len))
                     /\ UNCHANGED <<slots, read_idx, popped>>
                  \/ /\ consumer.pc = "release" /\ consumer'.pc = "advance"
                     /\ slots' = SlotsWithHead(EMPTY)
                     /\ UNCHANGED <<read_idx, popped>>
                  \/ /\ consumer.pc = "advance" /\ consumer'.pc = "idle"
                     /\ read_idx' = read_idx + 1
                     /\ popped' = Append(popped, [client_id |-> consumer.client_id,
                                                  cmd_len |-> consumer.cmd_len,
                                                  cmd |-> consumer.buf])
                     /\ UNCHANGED slots
          /\ consumer' = consumer => UNCHANGED <<read_idx, popped>>
          /\ \A i \in 1 .. Len(popped') :
               \E k \in 1 .. Len(sent'[popped'[i].client_id]) :
                  LET c == sent'[popped'[i].client_id][k]
                  IN  /\ popped'[i].cmd_len = Len(c)
                      /\ popped'[i].cmd = SubSeq(c, 1, Min(Len(c), buf_len)) ]_vars

\* a two-byte command was returned into a one-byte buffer: length 2, one byte copied
C28_Witness ==
    /\ buf_len = 1
    /\ \E i \in 1 .. Len(popped) : popped[i].cmd_len = 2 /\ Len(popped[i].cmd) = 1

(***************************************************************************)
(* C29  Failed claim: a try_push whose compare-exchange fails returns      *)
(* false having advanced write_idx by exactly 1 (at its claim) and changed *)
(* nothing else: no slot's state, client_id, cmd_len or data, and not      *)
(* read_idx.  The commands already READY keep their contents until the     *)
(* consumer takes them, and a READY command whose shell later had a claim  *)
(* fail is not among those left behind when the queue comes to rest.       *)
(***************************************************************************)
\* shell p's compare-exchange fails in this step
CasFailStep(p) == producer[p].pc = "cas" /\ producer'[p].pc \in {"idle", "claim"}

\* every call has returned and the consumer finds nothing at read_idx
AtRest == (\A p \in Shells : producer[p].pc = "idle") /\ DaemonStuck

HoldsFrame(h, resp) ==
    /\ FromLe([i \in 1 .. PREFIX_LEN |-> h[i - 1]]) = Len(resp)
    /\ \A j \in 1 .. Len(resp) : h[PREFIX_LEN + j - 1] = resp[j]

\* frames published so far
Published == Len(hist) - 1

C30_RunOrder ==
    /\ Len(run.handled) = Len(RunTakenOthers) - (IF run.pc = "handle" THEN 1 ELSE 0)
    /\ \A i \in 1 .. Len(run.handled) :
         /\ run.handled[i].client_id = RunTakenOthers[i].client_id
         /\ run.handled[i].cmd = RunTakenOthers[i].cmd
    /\ Published <= Len(wlog) /\ Len(wlog) <= Len(run.handled)
    /\ Published >= Len(run.handled) - 1
    /\ \A i \in 1 .. Len(wlog) :
         wlog[i] = [op |-> "write_with_len", payload |-> run.handled[i].response]
    /\ \A i \in 1 .. Published : HoldsFrame(hist[i + 1], run.handled[i].response)
    /\ (consumer.pc # "idle" \/ Len(popped) > run.n) =>
         /\ run.pc = "recv" /\ writer.pc = "idle"
         /\ Published = Len(run.handled)

\* run has handled a command of each of two shells and published both responses
C30_Witness ==
    /\ Len(run.handled) = 2 /\ Published = 2
    /\ run.handled[1].client_id # run.handled[2].client_id
    /\ Len(run.handled[1].response) = MaxResp /\ Len(run.handled[2].response) = MaxResp

(***************************************************************************)
(* The SeqLock with a reader that is scheduled fairly: a reader inside a   *)
(* call keeps taking steps.  Nothing is assumed of the writer or of the    *)
(* callers, who may stop at any point.                                     *)
(***************************************************************************)
\* one step of reader r inside a call
ReaderStep(r) == ReadLoad1(r) \/ ReadPrefixByte(r) \/ ReadCopyByte(r) \/ ReadLoad2(r)

SpecSeqLockFair ==
    Init /\ [][SeqLockNext]_vars /\ \A r \in Readers : WF_vars(ReaderStep(r))

(***************************************************************************)
(* C31  Reader progress: if the writer performs finitely many writes and   *)
(* completes the last one, then under fair scheduling of the reader every  *)
(* read and read_with_len call eventually returns.                         *)
(***************************************************************************)
InCall(r) == reader[r].pc \notin {"idle", "done"}

C31_ReaderProgress ==
    (<>[](writer.pc = "idle")) => \A r \in Readers : [](InCall(r) => <>(reader[r].pc = "done"))

\* a read_with_len that began before the first write has returned the frame of the last
C31_Witness ==
    \E r \in Readers :
       /\ reader[r].pc = "done" /\ reader[r].op = "read_with_len" /\ reader[r].ok
       /\ reader[r].begin = 0
       /\ reader[r].seq1 = 2 * MaxWrites

(***************************************************************************)
(* C32  Stalled writer: while the writer stands between the two sequence   *)
(* increments of a write (sequence odd), which is for ever if it has       *)
(* stopped for good, no read or read_with_len call returns and every       *)
(* try_read that returns, returns None; no reader returns the half-written *)
(* frame.                                                                  *)
(***************************************************************************)
\* reader r's call returns in this step
ReturnStep(r) == reader[r].pc # "done" /\ reader'[r].pc = "done"

C32_StalledWriter ==
    [][ sequence % 2 = 1 =>
          /\ writer.pc # "idle"
          /\ \A r \in Readers :
               /\ ReturnStep(r) => (reader'[r].op = "try_read" /\ ~reader'[r].ok)
               /\ (reader[r].pc = "load1" /\ reader[r].op = "try_read" /\ reader'[r] # reader[r]) =>
                    ReturnStep(r) ]_vars

\* the writer stands in the middle of its copy and a try_read has returned None
\* on the odd sequence it loaded
C32_Witness ==
    /\ sequence % 2 = 1 /\ writer.pc = "copy" /\ writer.i = 1
    /\ \E r \in Readers :
         /\ reader[r].pc = "done" /\ reader[r].op = "try_read"
         /\ ~reader[r].ok /\ reader[r].seq1 = sequence

(***************************************************************************)
(* C33  No stranded command: whenever no producer is inside a try_push     *)
(* (here: no shell is inside a call at all, and the consumer is between    *)
(* calls) and at least one slot is READY, the slot at read_idx mod         *)
(* num_slots is READY, so the next try_recv_command returns a command;     *)
(* also after try_push calls that failed on a full queue.                  *)
(***************************************************************************)
C33_NoStrandedCommand ==
    ( /\ \A p \in Shells : producer[p].pc = "idle"
      /\ consumer.pc = "idle"
      /\ \E j \in 0 .. num_slots - 1 : slots[j].state = READY )
    => slots[SlotOf(read_idx)].state = READY

(***************************************************************************)
(* Shells that call send_command with commands up to and past              *)
(* MAX_CMD_SIZE, and a daemon that receives.                               *)
(***************************************************************************)
BlockingInit ==
    /\ SeqLockInit /\ ChannelInit /\ AppInit
    /\ \E n \in 1 .. MaxSlots : MpscInit(n)

\* the commands a shell chooses from: a short one, and one a byte too long
BlockingCommands(p) == {Blob(p, 2), Blob(p, MAX_CMD_SIZE + 1)}

BlockingNext ==
    \/ \E p \in Shells :
         \E cmd \in BlockingCommands(p) :
            /\ TotalCalls < MaxBlockingCalls
            /\ SendCommand(p, "push", cmd)
    \/ \E p \in Shells : PushRetry(p)
    \/ \E p \in Shells : TryPushCas(p)
    \/ \E p \in Shells : TryPushStore(p)
    \/ \E p \in Shells : TryPushPublish(p)
    \/ TryPopCheck
    \/ TryPopMark
    \/ TryPopCopy
    \/ TryPopRelease
    \/ TryPopAdvance

SpecBlocking == BlockingInit /\ [][BlockingNext]_vars

(***************************************************************************)
(* C34  Oversized blocking send: send_command with a command longer than   *)
(* MAX_CMD_SIZE never returns (every inner try_push fails on the size      *)
(* check) and leaves the queue, write_idx included, unchanged for as long  *)
(* as it spins.                                                            *)
(***************************************************************************)
\* shell p is inside send_command with a command longer than MAX_CMD_SIZE
Oversized(p) == producer[p].pc # "idle" /\ Len(producer[p].cmd) > MAX_CMD_SIZE

\* shell p has made no call, or only the oversized one it is in
OnlyOversized(p) == tries[p] = <<>> /\ (producer[p].pc = "idle" \/ Oversized(p))

RingSend(p) ==
    /\ producer[p].pc = "idle"
    /\ producer' = [producer EXCEPT ![p] =
                      [ProducerIdle EXCEPT !.pc = "claim", !.mode = "push", !.cmd = <<p>>]]
    /\ UNCHANGED <<num_slots, buf_len, write_idx, read_idx, slots, consumer, popped, sent,
                   tries, api>>
    /\ UNCHANGED <<seqVars, chanVars, appVars>>

\* let idx = header.write_idx.0.fetch_add(1, AcqRel); let slot_idx = idx % num_slots;
RingClaim(p) ==
    /\ producer[p].pc = "claim"
    /\ write_idx' = (write_idx + 1) % num_slots
    /\ producer' = [producer EXCEPT ![p] = [@ EXCEPT !.pc = "cas", !.idx = write_idx]]
    /\ UNCHANGED <<num_slots, buf_len, read_idx, slots, consumer, popped, sent, tries, api>>
    /\ UNCHANGED <<seqVars, chanVars, appVars>>

\* slot.state.store(READY, Release); true   -- push returns
RingPublish(p) ==
    /\ producer[p].pc = "publish"
    /\ slots' = [slots EXCEPT ![SlotOf(producer[p].idx)].state = READY]
    /\ producer' = [producer EXCEPT ![p] = ProducerIdle]
    /\ UNCHANGED <<num_slots, buf_len, write_idx, read_idx, consumer, popped, sent, tries, api>>
    /\ UNCHANGED <<seqVars, chanVars, appVars>>

\* header.read_idx.0.fetch_add(1, Release); Some((client_id, cmd_len))
RingAdvance ==
    /\ consumer.pc = "advance"
    /\ read_idx' = (read_idx + 1) % num_slots
    /\ consumer' = ConsumerIdle
    /\ UNCHANGED <<num_slots, buf_len, write_idx, slots, producer, popped, sent, tries, api>>
    /\ UNCHANGED <<seqVars, chanVars, appVars>>

\* one step of shell p inside send_command, and one step of the daemon's try_recv_command
ProducerStep(p) == RingClaim(p) \/ TryPushCas(p) \/ TryPushStore(p) \/ RingPublish(p)
ConsumerStep == TryPopCheck \/ TryPopMark \/ TryPopCopy \/ TryPopRelease \/ RingAdvance

RingNext ==
    \/ \E p \in Shells : RingSend(p)
    \/ \E p \in Shells : RingClaim(p)
    \/ \E p \in Shells : TryPushCas(p)
    \/ \E p \in Shells : TryPushStore(p)
    \/ \E p \in Shells : RingPublish(p)
    \/ TryPopCheck
    \/ TryPopMark
    \/ TryPopCopy
    \/ TryPopRelease
    \/ RingAdvance

SpecQueueFair ==
    /\ QueueInit
    /\ [][RingNext]_vars
    /\ \A p \in Shells : WF_vars(ProducerStep(p))
    /\ WF_vars(ConsumerStep)

(***************************************************************************)
(* C35  Blocking send progress.  As stated: if the daemon keeps calling    *)
(* try_recv_command and every process is scheduled fairly (weak fairness), *)
(* every send_command call of every shell eventually returns.              *)
(***************************************************************************)
Sending(p) == producer[p].pc # "idle"

C35_SendProgress_AsStated ==
    \A p \in Shells : Sending(p) ~> ~Sending(p)

(***************************************************************************)
(* C35, amended: under the same fairness a send_command call returns       *)
(* unless other shells keep pushing successfully for ever; so when the     *)
(* other shells make finitely many calls, every call returns.              *)
(***************************************************************************)
\* some shell other than p is about to publish a command
OtherPublishes(p) == \E q \in Shells \ {p} : producer[q].pc = "publish"

C35_SendProgress ==
    \A p \in Shells : ([]<>OtherPublishes(p)) \/ (Sending(p) ~> ~Sending(p))

\* with two slots: a shell is retrying after a failed claim while the other
\* shell's command waits READY and the daemon is taking one out
C35_Witness ==
    /\ num_slots = 2
    /\ \E p \in Shells :
         /\ producer[p].pc = "claim" /\ producer[p].idx # write_idx
         /\ \E j \in 0 .. 1 : slots[j].state = READY /\ slots[j].client_id # p
    /\ consumer.pc = "release"

(***************************************************************************)
(* C36  Exclusive slot access: never are two producers between their       *)
(* successful compare-exchange and their READY store on the same slot; the *)
(* consumer copies a slot's data only while the slot is PROCESSING, and    *)
(* during that time no producer writes the slot's client_id, cmd_len or    *)
(* data.                                                                   *)
(***************************************************************************)
\* the client id, length and bytes of slot j are the same after the step
SlotDataKept(j) ==
    /\ slots'[j].client_id = slots[j].client_id
    /\ slots'[j].cmd_len = slots[j].cmd_len
    /\ slots'[j].cmd_data = slots[j].cmd_data

C36_ExclusiveSlotAccess ==
    [][ \A j \in 0 .. num_slots - 1 :
          /\ \A p, q \in Shells : (HoldsSlot(p, j) /\ HoldsSlot(q, j)) => p = q
          /\ (consumer.pc = "copy" /\ SlotOf(consumer.ridx) = j) =>
               /\ slots[j].state = PROCESSING
               /\ \A p \in Shells : ~HoldsSlot(p, j)
               /\ SlotDataKept(j)
          /\ ~SlotDataKept(j) =>
               /\ slots[j].state = WRITING /\ slots'[j].state = WRITING
               /\ \E p \in Shells :
                    /\ HoldsSlot(p, j) /\ producer[p].pc = "store"
                    /\ producer'[p].pc = "publish"
                    /\ slots'[j].client_id = p ]_vars

\* with two slots: the consumer is copying one slot while a producer writes the
\* other, which a second producer has also claimed
C36_Witness ==
    /\ num_slots = 2
    /\ consumer.pc = "copy"
    /\ \E p, q \in Shells :
         /\ p # q
         /\ producer[p].pc = "store" /\ SlotOf(producer[p].idx) # SlotOf(consumer.ridx)
         /\ producer[q].pc = "cas" /\ SlotOf(producer[q].idx) = SlotOf(producer[p].idx)

(***************************************************************************)
(* C37  Reads never go back in time: a successful read that starts after   *)
(* the k-th write has completed returns the frame of write k or of a later *)
(* write; and since the frame a read returns is one already published when *)
(* it returns, and the next read of the same reader starts after that, two *)
(* successive successful reads return frames in non-decreasing publish     *)
(* order.                                                                  *)
(***************************************************************************)
\* the number of the write whose frame reader r's successful call returns (0: the
\* zero-filled region)
FrameOf(r) == reader[r].seq1 \div 2

PayloadSizes == 0 .. PREFIX_LEN

PayloadInit ==
    /\ MpscInit(1) /\ ChannelInit /\ AppInit
    /\ \E n \in PayloadSizes : SeqLockInitSized(n)

PayloadNext ==
    \/ /\ Quiet
       /\ Len(wlog) < MaxPayloadWrites
       /\ \E op \in {"write", "write_with_len"}, n \in 0 .. MaxLen :
            WriteBegin(op, Payload(Len(wlog) + 1, n))
    \/ /\ Quiet
       /\ Len(wlog) < MaxPayloadWrites
       /\ \E n \in 0 .. MaxLen : WriteWithLenPanic(Payload(Len(wlog) + 1, n))
    \/ WritePrefixByte
    \/ WriteCopyByte
    \/ WriteEnd
    \/ /\ Quiet
       /\ \E r \in Readers, op \in ReadOps, n \in 0 .. MaxBuf : ReadBegin(r, op, n)
    \/ \E r \in Readers : ReadLoad1(r)
    \/ \E r \in Readers : ReadPrefixByte(r)
    \/ \E r \in Readers : ReadCopyByte(r)
    \/ \E r \in Readers : ReadLoad2(r)
    \/ \E r \in Readers : ReadReturn(r)

SpecPayload == PayloadInit /\ [][PayloadNext]_vars

(***************************************************************************)
(* C38  Payload bounds: for every data_size >= 0, every payload length and *)
(* every buffer length, the five calls access only bytes 0 .. data_size-1  *)
(* of the payload region: the length computation of write_with_len never   *)
(* underflows (no call panics, no length exceeds the room left), every     *)
(* byte stored lies inside the region, and every byte loaded does.         *)
(***************************************************************************)
\* the offset of the byte reader r loads in this step, -1 if it loads none
LoadOffset(r) ==
    IF reader'[r] = reader[r] THEN -1
    ELSE IF reader[r].pc = "prefix" THEN reader[r].i
    ELSE IF reader[r].pc = "copy" /\ reader[r].i < CopyLen(reader[r])
         THEN ReadBase(reader[r].op) + reader[r].i
    ELSE -1

C38_PayloadBounds ==
    [][ /\ writer'.pc # "abort"
        /\ writer'.pc # "idle" => WriteBase(writer'.op) + writer'.len <= data_size
        /\ DOMAIN data' \subseteq 0 .. data_size - 1
        /\ \A r \in Readers : LoadOffset(r) < data_size ]_vars

(***************************************************************************)
(* A daemon that is started again under the same name.  VenomShm::create   *)
(* tries shm_open(CREATE | EXCL) and, when the name exists, opens the      *)
(* existing object instead; it then sets its size, maps it and zero-fills  *)
(* it, and DaemonChannel::create stamps the header anew.  The shells       *)
(* attached before keep their mappings of that object and their ids.       *)
(***************************************************************************)
\* VenomShm::create(namespace, total_size) on a name that exists: shm_open(RDWR)
\* of the existing object, ftruncate, mmap, write_bytes(addr, 0, size).  The
\* earlier daemon handle is still held, or its process ended without dropping it.
DaemonShmRecreate ==
    /\ daemon = "created"
    /\ region.kind \in {"daemon", "foreign"}
    /\ region' = [kind |-> "daemon", magic |-> 0, version |-> 0, next_client_id |-> 0,
                  fits |-> TRUE]
    /\ daemon' = "mapped"
    /\ UNCHANGED <<conn, ids>>
    /\ UNCHANGED <<seqVars, queueVars, appVars>>

RestartNext ==
    \/ DaemonShmCreate
    \/ DaemonShmRecreate
    \/ DaemonStampMagic
    \/ DaemonStampRest
    \/ \E s \in Shells :
         /\ ConnectsStarted < MaxConnects
         /\ ConnectOpen(s)
    \/ \E s \in Shells : ConnectCheckMagic(s)
    \/ \E s \in Shells : ConnectAllocate(s)
    \/ \E s \in Shells : ConnectForget(s)
    \/ DaemonDrop

SpecRestart == Init /\ [][RestartNext]_vars

(***************************************************************************)
(* C39  Client ids stay unique across a daemon restart: whatever the       *)
(* sequence of DaemonChannel::create calls (on an existing name with       *)
(* shells attached too), connect calls and handle drops, two shell handles *)
(* attached to the region at the same time hold different client ids.      *)
(* Only handles whose connect began on a completely created region are     *)
(* compared.                                                               *)
(***************************************************************************)
C39_UniqueAcrossRestart ==
    \A s, t \in Shells :
       (/\ s # t
        /\ conn[s].pc = "connected" /\ conn[s].created
        /\ conn[t].pc = "connected" /\ conn[t].created)
       => conn[s].client_id # conn[t].client_id

====
